---- MODULE Spec2Model ----
(***************************************************************************)
(* Crawl orchestration core of breachwatch: MasterCrawler, DomainLimiter,  *)
(* the background task process_crawl_job and the stop endpoint.            *)
(*                                                                         *)
(* The program runs on one asyncio event loop: code between two awaits     *)
(* that really suspend runs without interleaving.  Every action below is   *)
(* one such block, from one suspension point to the next.                  *)
(*                                                                         *)
(* Four constructs on the path of every record are modelled by what they   *)
(* are written to do, since as they stand no record is ever made: the      *)
(* proxies MasterCrawler.__init__ reads are a setting of the job, the      *)
(* generators handed to asyncio.as_completed are concurrent branches whose *)
(* results are streamed to the consumer, FILE_TYPE_EXTENSIONS is looked up *)
(* by category, download_and_store_file is called with the arguments it    *)
(* has.  Everything else is modelled as it executes, response.text() in    *)
(* _fetch_robots_txt_parser included.  Text is a sequence of one-character *)
(* strings.                                                                *)
(***************************************************************************)
EXTENDS Integers, Sequences, FiniteSets, TLC

(***************************************************************************)
(* Bounds of the model.                                                    *)
(***************************************************************************)
MaxDepth == 1
MaxConcurrent == 2
MaxDelay == 1

(***************************************************************************)
(* Characters and text.                                                    *)
(***************************************************************************)
UpperChars == <<"A","B","C","D","E","F","G","H","I","J","K","L","M",
                "N","O","P","Q","R","S","T","U","V","W","X","Y","Z">>
LowerChars == <<"a","b","c","d","e","f","g","h","i","j","k","l","m",
                "n","o","p","q","r","s","t","u","v","w","x","y","z">>
Digits == {"0","1","2","3","4","5","6","7","8","9"}

\* str.lower() on one character
LowerChar(c) ==
  IF \E i \in 1..Len(UpperChars) : UpperChars[i] = c
  THEN LowerChars[CHOOSE i \in 1..Len(UpperChars) : UpperChars[i] = c]
  ELSE c

\* str.lower()
Lower(s) == [i \in 1..Len(s) |-> LowerChar(s[i])]

\* the regex class \w
IsWordChar(c) ==
  \/ \E i \in 1..Len(LowerChars) : LowerChars[i] = c \/ UpperChars[i] = c
  \/ c \in Digits
  \/ c = "_"

\* the regex assertion \b between s[i-1] and s[i] (i in 1..Len(s)+1)
WordBoundary(s, i) ==
  LET before == i > 1 /\ IsWordChar(s[i-1])
      after  == i <= Len(s) /\ IsWordChar(s[i])
  IN  before # after

\* pat occurs in s starting at index i
OccursAt(s, pat, i) ==
  /\ i + Len(pat) - 1 <= Len(s)
  /\ \A j \in 1..Len(pat) : s[i + j - 1] = pat[j]

\* pat in s (substring test)
Contains(s, pat) == \E i \in 1..(Len(s) + 1) : OccursAt(s, pat, i)

\* a mutant of SearchWholeWord: a plain substring search
SearchAnywhere(text, kw) == Contains(text, kw)

\* re.search(r"\b" + re.escape(kw) + r"\b", text)
SearchWholeWord(text, kw) ==
  \E i \in 1..(Len(text) + 1) :
    /\ OccursAt(text, kw, i)
    /\ WordBoundary(text, i)
    /\ WordBoundary(text, i + Len(kw))

\* one iteration of the loop of match_keywords_in_text
KeywordHit(text, kw) ==
  \E lowered \in {Lower(text) \o <<>>}, word \in {Lower(kw) \o <<>>} :
    SearchWholeWord(lowered, word)

\* keyword_matcher.match_keywords_in_text
match_keywords_in_text(text, keywords) ==
  IF text = <<>> \/ keywords = {} THEN {}
  ELSE {kw \in keywords : KeywordHit(text, kw)}

\* extensions as text
EXT_SQL == <<"s","q","l">>
EXT_TXT == <<"t","x","t">>
EXT_XML == <<"x","m","l">>
EXT_JPG == <<"j","p","g">>
EXT_HTML == <<"h","t","m","l">>

(***************************************************************************)
(* URLs.  A URL is a record of the parts urlparse gives; the path is one   *)
(* segment (the file name).                                                *)
(***************************************************************************)
Url(scheme, host, path, query, frag) ==
  [scheme |-> scheme, host |-> host, path |-> path, query |-> query, frag |-> frag]

\* parsed._replace(fragment="", query="").geturl()
Normalize(u) == [u EXCEPT !.query = "", !.frag = ""]

\* parsed._replace(fragment="").geturl()
StripFragment(u) == [u EXCEPT !.frag = ""]

\* a mutant of IsValidStartUrl: the scheme is not tested
IsValidStartUrlAnyScheme(u) == u.host # ""

\* parsed.scheme in ['http', 'https'] and parsed.netloc
IsValidStartUrl(u) == u.scheme \in {"http", "https"} /\ u.host # ""

\* a mutant of DomainOf: one limiter is shared by every domain
DomainOfShared(u) == "__no_domain__"

\* urlparse(url).netloc, or the shared fallback bucket
DomainOf(u) == IF u.host = "" THEN "__no_domain__" ELSE u.host

\* str.lstrip('.')
RECURSIVE LstripDot(_)
LstripDot(s) == IF s # <<>> /\ Head(s) = "." THEN LstripDot(Tail(s)) ELSE s

\* str.rfind('.') as a 1-based index, 0 when there is no dot
RfindDot(s) ==
  IF \E i \in 1..Len(s) : s[i] = "."
  THEN CHOOSE i \in 1..Len(s) : s[i] = "." /\ \A j \in (i+1)..Len(s) : s[j] # "."
  ELSE 0

\* pathlib.PurePath.suffix
Suffix(name) ==
  LET i == RfindDot(name)
  IN  IF 1 < i /\ i < Len(name) THEN SubSeq(name, i, Len(name)) ELSE <<>>

\* content_type_header.split(';')[0].strip().lower()
MimeFromHeader(ct) ==
  CASE ct = "text/html; charset=utf-8" -> "text/html"
    [] OTHER -> ct

\* mimetypes.guess_type(url)[0], "" for None
GuessType(ext) ==
  CASE ext = EXT_SQL -> "application/sql"
    [] ext = EXT_TXT -> "text/plain"
    [] ext = EXT_XML -> "application/xml"
    [] ext = EXT_JPG -> "image/jpeg"
    [] OTHER -> ""

\* mimetypes.guess_extension(mime), <<>> for None
GuessExtension(mime) ==
  CASE mime = "text/html" -> <<".">> \o EXT_HTML
    [] mime = "text/plain" -> <<".">> \o EXT_TXT
    [] mime = "application/sql" -> <<".">> \o EXT_SQL
    [] mime = "image/jpeg" -> <<".">> \o EXT_JPG
    [] mime = "application/xml" -> <<".", "x", "s", "l">>
    [] OTHER -> <<>>

\* file_identifier.identify_file_type_and_name
identify_file_type_and_name(u, ct) ==
  LET file_name == u.path
      file_extension == Lower(LstripDot(Suffix(file_name)))
      from_header == MimeFromHeader(ct)
      final_mime == IF from_header # "" THEN from_header ELSE GuessType(file_extension)
      guessed == IF file_extension = <<>> /\ final_mime # ""
                    /\ final_mime # "application/octet-stream"
                 THEN Lower(LstripDot(GuessExtension(final_mime)))
                 ELSE <<>>
  IN  IF guessed # <<>>
      THEN [name |-> IF Suffix(file_name) = <<>>
                     THEN file_name \o <<".">> \o guessed ELSE file_name,
            extension |-> guessed, mime_type |-> final_mime]
      ELSE [name |-> file_name, extension |-> file_extension, mime_type |-> final_mime]

(***************************************************************************)
(* The web the crawler runs against: a fixed set of resources.  A resource *)
(* is what a successful GET of a URL returns; any GET may also fail.       *)
(***************************************************************************)
N_INDEX == <<"i","n","d","e","x">>
N_REP == <<"r","e","p",".","s","q","l">>
N_LOG == <<"a",".","t","x","t">>
N_SM == <<"s","m",".","x","m","l">>
N_PG == <<"p","g">>
N_SMT == <<"s","m",".","t","x","t">>
N_NOKW == <<"b",".","t","x","t">>
N_SITEMAP_XML == <<"s","i","t","e","m","a","p",".","x","m","l">>
N_SITEMAP_INDEX == <<"s","i","t","e","m","a","p","_","i","n","d","e","x",".","x","m","l">>
N_SITEMAP_TXT == <<"s","i","t","e","m","a","p",".","t","x","t">>
N_SITEMAP_GZ == <<"s","i","t","e","m","a","p",".","x","m","l",".","g","z">>
KW_REP == <<"r","e","p">>
KW_NIK == <<"N","I","K">>
KW_KTP == <<"k","t","p">>

U_INDEX   == Url("http", "a", N_INDEX, "", "")
U_INDEX_Q == Url("http", "a", N_INDEX, "s=1", "")
U_REP     == Url("http", "a", N_REP, "", "")
U_REP_F   == Url("http", "a", N_REP, "", "top")
U_LOG     == Url("http", "a", N_LOG, "", "")
U_SM      == Url("http", "a", N_SM, "", "")
U_PG      == Url("https", "b", N_PG, "", "")
U_SMT     == Url("https", "b", N_SMT, "", "")
U_BIG     == Url("https", "b", N_REP, "", "")
U_NOKW    == Url("https", "b", N_NOKW, "", "")
U_FTP     == Url("ftp", "a", N_REP, "", "")
U_NOHOST  == Url("http", "", N_REP, "", "")
\* a page that links to report.sql and to one .jpg
N_REPORT  == <<"r","e","p","o","r","t",".","s","q","l">>
N_JPG     == <<"r","e","p","o","r","t",".","j","p","g">>
KW_REPORT == <<"r","e","p","o","r","t">>
U_HOME    == Url("http", "a", <<"h","o","m","e">>, "", "")
U_REPORT  == Url("http", "a", N_REPORT, "", "")
U_JPG     == Url("http", "a", N_JPG, "", "")
\* two pages naming the same sitemap index, two indexes listing the same sitemap
U_P1      == Url("http", "b", <<"p","1">>, "", "")
U_P2      == Url("http", "b", <<"p","2">>, "", "")
U_IX      == Url("http", "b", <<"i","x",".","x","m","l">>, "", "")
U_IX2     == Url("http", "b", <<"i","x","2",".","x","m","l">>, "", "")
U_CH      == Url("http", "b", <<"c","h",".","x","m","l">>, "", "")
\* a page that names the sitemap sx.txt, and a page with a link to it (the
\* sitemap this second page names does not exist)
U_P4      == Url("http", "b", <<"p","4">>, "", "")
U_L1      == Url("http", "b", <<"l","1">>, "", "")
U_SX      == Url("http", "b", <<"s","x",".","t","x","t">>, "", "")
U_NX      == Url("http", "b", <<"n","x",".","t","x","t">>, "", "")
\* the file x1.txt, linked by the seed page d1 and listed by the sitemap of
\* b1, a page the seed page a1 links to
U_A1      == Url("http", "b", <<"a","1">>, "", "")
U_B1      == Url("http", "b", <<"b","1">>, "", "")
U_D1      == Url("http", "b", <<"d","1">>, "", "")
U_SB      == Url("http", "b", <<"s","b",".","t","x","t">>, "", "")
U_X1      == Url("http", "b", <<"x","1",".","t","x","t">>, "", "")
\* a page naming two sitemap indexes: one lists itself and the other, the
\* other lists the first one and a sitemap
U_P3      == Url("http", "b", <<"p","3">>, "", "")
U_CY1     == Url("http", "b", <<"c","y","1",".","x","m","l">>, "", "")
U_CY2     == Url("http", "b", <<"c","y","2",".","x","m","l">>, "", "")

\* size classes of a response body: empty, below 2 MiB, 5 MiB or more
SIZE_EMPTY == "empty"
SIZE_SMALL == "small"
SIZE_LARGE == "large"

NoResource ==
  [exists |-> FALSE, ctype |-> "", body |-> <<>>, size |-> SIZE_EMPTY,
   anchors |-> {}, rel_sitemaps |-> {}, locs |-> {}, root |-> ""]

\* what the server holds at a normalized URL
Resource(n) ==
  CASE n = U_INDEX ->
         [NoResource EXCEPT !.exists = TRUE, !.ctype = "text/html; charset=utf-8",
            !.body = <<"h","i">>, !.size = SIZE_SMALL,
            !.anchors = {U_REP_F, U_INDEX_Q}, !.rel_sitemaps = {U_SM}]
    [] n = U_REP ->
         [NoResource EXCEPT !.exists = TRUE, !.ctype = "application/sql",
            !.body = <<"x">>, !.size = SIZE_SMALL]
    [] n = U_LOG ->
         [NoResource EXCEPT !.exists = TRUE, !.ctype = "text/plain",
            !.body = <<"n","i","k"," ","1">>, !.size = SIZE_SMALL]
    [] n = U_SM ->
         [NoResource EXCEPT !.exists = TRUE, !.ctype = "application/xml",
            !.body = <<"x">>, !.size = SIZE_SMALL,
            !.locs = {U_REP, U_LOG}, !.root = "urlset"]
    [] n = U_PG ->
         [NoResource EXCEPT !.exists = TRUE, !.ctype = "text/html",
            !.body = <<"r","e","p">>, !.size = SIZE_SMALL,
            !.anchors = {U_BIG, U_NOKW}, !.rel_sitemaps = {U_SMT}]
    [] n = U_SMT ->
         [NoResource EXCEPT !.exists = TRUE, !.ctype = "text/plain",
            !.body = <<"x">>, !.size = SIZE_SMALL, !.locs = {U_FTP}]
    [] n = U_BIG ->
         [NoResource EXCEPT !.exists = TRUE, !.ctype = "application/sql",
            !.body = <<"x">>, !.size = SIZE_LARGE]
    [] n = U_NOKW ->
         [NoResource EXCEPT !.exists = TRUE, !.ctype = "text/plain",
            !.body = <<"x","n","i","k">>, !.size = SIZE_SMALL]
    [] n = U_HOME ->
         [NoResource EXCEPT !.exists = TRUE, !.ctype = "text/html",
            !.body = KW_REPORT, !.size = SIZE_SMALL,
            !.anchors = {U_REPORT, U_JPG}]
    [] n = U_REPORT ->
         [NoResource EXCEPT !.exists = TRUE, !.ctype = "application/sql",
            !.body = <<"x">>, !.size = SIZE_SMALL]
    [] n = U_JPG ->
         [NoResource EXCEPT !.exists = TRUE, !.ctype = "image/jpeg",
            !.body = <<"x">>, !.size = SIZE_SMALL]
    [] n = U_P1 ->
         [NoResource EXCEPT !.exists = TRUE, !.ctype = "text/html",
            !.body = <<"x">>, !.size = SIZE_SMALL, !.rel_sitemaps = {U_IX}]
    [] n = U_P2 ->
         [NoResource EXCEPT !.exists = TRUE, !.ctype = "text/html",
            !.body = <<"x">>, !.size = SIZE_SMALL, !.rel_sitemaps = {U_IX, U_IX2}]
    [] n \in {U_IX, U_IX2} ->
         [NoResource EXCEPT !.exists = TRUE, !.ctype = "application/xml",
            !.body = <<"x">>, !.size = SIZE_SMALL,
            !.locs = {U_CH}, !.root = "sitemapindex"]
    [] n = U_P4 ->
         [NoResource EXCEPT !.exists = TRUE, !.ctype = "text/html",
            !.body = <<"x">>, !.size = SIZE_SMALL, !.rel_sitemaps = {U_SX}]
    [] n = U_L1 ->
         [NoResource EXCEPT !.exists = TRUE, !.ctype = "text/html",
            !.body = <<"x">>, !.size = SIZE_SMALL, !.anchors = {U_SX},
            !.rel_sitemaps = {U_NX}]
    [] n = U_SX ->
         [NoResource EXCEPT !.exists = TRUE, !.ctype = "text/plain",
            !.body = <<"x">>, !.size = SIZE_SMALL]
    [] n = U_A1 ->
         [NoResource EXCEPT !.exists = TRUE, !.ctype = "text/html",
            !.body = <<"x">>, !.size = SIZE_SMALL, !.anchors = {U_B1},
            !.rel_sitemaps = {U_SX}]
    [] n = U_B1 ->
         [NoResource EXCEPT !.exists = TRUE, !.ctype = "text/html",
            !.body = <<"x">>, !.size = SIZE_SMALL, !.rel_sitemaps = {U_SB}]
    [] n = U_D1 ->
         [NoResource EXCEPT !.exists = TRUE, !.ctype = "text/html",
            !.body = <<"x">>, !.size = SIZE_SMALL, !.anchors = {U_X1},
            !.rel_sitemaps = {U_SX}]
    [] n = U_SB ->
         [NoResource EXCEPT !.exists = TRUE, !.ctype = "text/plain",
            !.body = <<"x">>, !.size = SIZE_SMALL, !.locs = {U_X1}]
    [] n = U_X1 ->
         [NoResource EXCEPT !.exists = TRUE, !.ctype = "text/plain",
            !.body = <<"x">>, !.size = SIZE_SMALL]
    [] n = U_P3 ->
         [NoResource EXCEPT !.exists = TRUE, !.ctype = "text/html",
            !.body = <<"x">>, !.size = SIZE_SMALL, !.rel_sitemaps = {U_CY1, U_CY2}]
    [] n = U_CY1 ->
         [NoResource EXCEPT !.exists = TRUE, !.ctype = "application/xml",
            !.body = <<"x">>, !.size = SIZE_SMALL,
            !.locs = {U_CY1, U_CY2}, !.root = "sitemapindex"]
    [] n = U_CY2 ->
         [NoResource EXCEPT !.exists = TRUE, !.ctype = "application/xml",
            !.body = <<"x">>, !.size = SIZE_SMALL,
            !.locs = {U_CY1, U_CH}, !.root = "sitemapindex"]
    [] n = U_CH ->
         [NoResource EXCEPT !.exists = TRUE, !.ctype = "application/xml",
            !.body = <<"x">>, !.size = SIZE_SMALL,
            !.locs = {U_REP}, !.root = "urlset"]
    [] OTHER -> NoResource

\* robots.txt of a host: the paths it disallows (for every user agent)
RobotsDisallow(host) == IF host = "a" THEN {N_LOG} ELSE {}

(***************************************************************************)
(* State.                                                                  *)
(***************************************************************************)
VARIABLES
  settings,                \* CrawlSettingsSchema of the job, and its schedule type
  status,                  \* CrawlJob.status in the database
  downloaded_files,        \* DownloadedFile rows of the job (FoundResource records)
  active_crawlers,         \* whether the registry holds the job's crawler
  pcJob,                   \* position of the background task process_crawl_job
  files_processed_count,   \* process_crawl_job's counter
  pcMain,                  \* position of MasterCrawler.start_crawling
  should_stop,             \* MasterCrawler._should_stop_event
  visited_urls,            \* MasterCrawler.visited_urls
  processed_sitemap_urls,  \* MasterCrawler.processed_sitemap_urls
  robots_parsers_cache,    \* MasterCrawler.robots_parsers_cache, by scheme and host
  initial_urls_found,      \* MasterCrawler.initial_urls_found
  files_found_count,       \* start_crawling's counter
  final_status_to_set,     \* start_crawling's resolved status
  client_closed,           \* http_client_no_proxy.is_closed
  search_client,           \* the temporary proxied client of the search step:
                           \* "none" while there is none, "open", "closed"
  tasks,                   \* the process_url / sitemap branches, in creation order
  limiters,                \* MasterCrawler.domain_limiters
  fetch_log,               \* history: every GET the Fetcher dispatched
  dork_results,            \* the URLs the search queries returned
  pcDelete,                \* position of delete_crawl_job_endpoint
  external_status,         \* history: the status another writer gave the job
  aborted,                 \* history: an unrecoverable error ended the run
  dl,                      \* one call of download_and_store_file, taken alone
  km,                      \* one call of match_keywords_in_text, taken alone
  runs                     \* one job with every background task queued for it

vars == <<settings, status, downloaded_files, active_crawlers, pcJob,
          files_processed_count, pcMain, should_stop, visited_urls,
          processed_sitemap_urls, robots_parsers_cache, initial_urls_found,
          files_found_count, final_status_to_set, client_closed, search_client, tasks,
          limiters, fetch_log, dork_results, pcDelete, external_status,
          aborted, dl, km, runs>>

Domains == {"a", "b", "__no_domain__"}

TaskIds == 1..Len(tasks)

(***************************************************************************)
(* DomainLimiter.  since is the time elapsed since last_request_time,      *)
(* counted up to delay_seconds; lock is the task holding _lock, 0 if free; *)
(* waiters are the tasks in _condition.wait(), oldest first.               *)
(***************************************************************************)
NewLimiter(delay_seconds, max_concurrent) ==
  [delay_seconds |-> delay_seconds, max_concurrent |-> max_concurrent,
   since |-> delay_seconds, active_requests |-> 0, lock |-> 0, waiters |-> <<>>]

\* a mutant of SlotsExhausted: off by one
SlotsExhaustedOffByOne(active_requests, max_concurrent) ==
  active_requests > max_concurrent

\* the loop condition of acquire
SlotsExhausted(active_requests, max_concurrent) ==
  active_requests >= max_concurrent

\* a mutant of WaitTime: the delay is not enforced
WaitTimeNone(delay_seconds, since) == 0

\* wait_time of acquire, 0 when no sleep is needed
WaitTime(delay_seconds, since) ==
  IF since < delay_seconds THEN delay_seconds - since ELSE 0

\* A bundle b = [tasks, limiters, fetch_log] is the part of the state one
\* block of fetch_page_content changes.
SetPc(b, t, pc) == [b EXCEPT !.tasks[t].pc = pc]

\* a mutant of ReleaseLocked: the count is decremented, no waiter is woken
ReleaseLockedNoNotify(b, t, d) ==
  [b EXCEPT !.limiters[d].active_requests = @ - 1]

\* release, from the moment the task holds _lock: notify() wakes the oldest waiter
ReleaseLocked(b, t, d) ==
  LET ws == b.limiters[d].waiters
      b1 == [b EXCEPT !.limiters[d].active_requests = @ - 1]
  IN  IF ws = <<>> THEN b1
      ELSE [b1 EXCEPT !.limiters[d].waiters = Tail(ws),
                      !.tasks[Head(ws)].pc = "relock"]

\* acquire, the last two lines: record the request start; then the GET of
\* fetch_page_content is dispatched.  On a closed client the GET raises at
\* once, and the finally clause releases the slot in the same block.
RecordStart(b, t, d) ==
  LET tk == b.tasks[t]
      started == [b EXCEPT !.limiters[d].since = 0,
                           !.limiters[d].active_requests = @ + 1,
                           !.limiters[d].lock = 0,
                           !.tasks[t].gap = b.limiters[d].since]
  IN  IF client_closed
      THEN [ReleaseLocked(started, t, d) EXCEPT !.tasks[t].pc = "done",
                                                !.tasks[t].resp = "fail"]
      ELSE [started EXCEPT
              !.tasks[t].pc = "get",
              !.fetch_log = @ \cup {[task |-> t, url |-> tk.url, depth |-> tk.depth,
                                     kind |-> tk.kind, after_stop |-> should_stop]}]

\* acquire, from the moment the task holds _lock
AcquireLocked(b, t, d) ==
  LET lim == b.limiters[d]
  IN  IF SlotsExhausted(lim.active_requests, lim.max_concurrent)
      THEN [b EXCEPT !.limiters[d].lock = 0,
                     !.limiters[d].waiters = Append(@, t),
                     !.tasks[t].pc = "cond"]
      ELSE IF WaitTime(lim.delay_seconds, lim.since) > 0
      THEN [b EXCEPT !.limiters[d].lock = t,
                     !.tasks[t].pc = "sleep",
                     !.tasks[t].rem = WaitTime(lim.delay_seconds, lim.since)]
      ELSE RecordStart(b, t, d)

\* DomainLimiter.acquire from its first line
Acquire(b, t, d) ==
  IF b.limiters[d].lock = 0 THEN AcquireLocked(b, t, d) ELSE SetPc(b, t, "lock")

(***************************************************************************)
(* process_url: deciding whether a fetched resource is a target.           *)
(***************************************************************************)
\* FILE_TYPE_EXTENSIONS, the categories process_url reads
FILE_TYPE_EXTENSIONS_text == {
    <<"t","x","t">>, <<"l","o","g">>, <<"c","s","v">>, <<"m","d">>,
    <<"r","t","f">>, <<"t","s","v">>, <<"i","n","i">>, <<"c","o","n","f">>,
    <<"c","f","g">>, <<"p","e","m">>, <<"k","e","y">>}
FILE_TYPE_EXTENSIONS_json == {
    <<"j","s","o","n">>, <<"j","s","o","n","l">>,
    <<"g","e","o","j","s","o","n">>}
FILE_TYPE_EXTENSIONS_code == {
    <<"p","y">>, <<"j","s">>, <<"j","a","v","a">>, <<"c">>, <<"c","p","p">>,
    <<"c","s">>, <<"p","h","p">>, <<"r","b">>, <<"g","o">>,
    <<"h","t","m","l">>, <<"c","s","s">>, <<"s","h">>, <<"p","s","1">>,
    <<"b","a","t">>, <<"x","m","l">>, <<"y","a","m","l">>, <<"y","m","l">>}
FILE_TYPE_EXTENSIONS_config == {
    <<"c","o","n","f","i","g">>, <<"c","o","n","f">>, <<"c","f","g">>,
    <<"i","n","i">>, <<"x","m","l">>, <<"y","a","m","l">>, <<"y","m","l">>,
    <<"e","n","v">>, <<"p","e","m">>, <<"k","e","y">>, <<"c","r","t">>}

\* a mutant of IsTargetExtension: every type is a target
IsTargetExtensionAny(extension, file_extensions) == TRUE

\* is_target_file_extension
IsTargetExtension(extension, file_extensions) ==
  Lower(extension) \in {Lower(LstripDot(ext)) : ext \in file_extensions}

\* is_text_based
IsTextBased(extension) ==
  Lower(extension) \in (FILE_TYPE_EXTENSIONS_text \cup FILE_TYPE_EXTENSIONS_json
                        \cup FILE_TYPE_EXTENSIONS_code \cup FILE_TYPE_EXTENSIONS_config)

\* len(raw_content_bytes) < 2 MiB, the bound of the content check
BelowContentCheckLimit(size) == size \in {SIZE_EMPTY, SIZE_SMALL}

\* len(raw_content_bytes) < 5 MiB: the bytes are handed to the downloader
BelowPrefetchLimit(size) == size \in {SIZE_EMPTY, SIZE_SMALL}

\* a mutant of ShouldDownload: the keyword test is dropped
ShouldDownloadNoKeywords(is_target, all_found_keywords) == is_target

\* the two nested conditions that guard download_and_store_file
ShouldDownload(is_target, all_found_keywords) ==
  is_target /\ all_found_keywords # {}

\* process_url from the fetched content to the download decision
ContentDecision(u, res) ==
  LET Decide(file_meta) ==
        LET is_target == IsTargetExtension(file_meta.extension, settings.file_extensions)
            keywords_in_filename ==
              match_keywords_in_text(file_meta.name, settings.keywords)
            keywords_in_content ==
              IF IsTextBased(file_meta.extension) /\ BelowContentCheckLimit(res.size)
              THEN match_keywords_in_text(res.body, settings.keywords)
              ELSE {}
            all_found_keywords == keywords_in_filename \cup keywords_in_content
        IN  [file_meta |-> file_meta,
             keywords |-> all_found_keywords,
             download |-> ShouldDownload(is_target, all_found_keywords)]
  IN  CHOOSE r \in {Decide(v) : v \in {identify_file_type_and_name(u, res.ctype)}} : TRUE

\* the DownloadedFileSchema download_and_store_file returns
DownloadEntry(t, u, d) ==
  [task |-> t, file_url |-> u, file_type |-> d.file_meta.extension,
   keywords_found |-> d.keywords, name |-> d.file_meta.name]

\* "text/html" in content_type_header
IsHtml(ctype) == ctype \in {"text/html", "text/html; charset=utf-8"}

\* the four guessed root-level sitemap paths
CommonSitemapPaths == {N_SITEMAP_XML, N_SITEMAP_INDEX, N_SITEMAP_TXT, N_SITEMAP_GZ}

\* _extract_sitemap_urls_from_html
extract_sitemap_urls_from_html(res, base) ==
  LET found == res.rel_sitemaps \cup
               {a \in res.anchors : \/ Contains(a.path, N_SITEMAP_XML)
                                    \/ Contains(a.path, N_SITEMAP_INDEX)
                                    \/ Contains(a.path, N_SITEMAP_TXT)}
  IN  IF found # {} THEN found
      ELSE {Url(base.scheme, base.host, path, "", "") : path \in CommonSitemapPaths}

\* recursive.extract_links_from_html
extract_links_from_html(res) ==
  {StripFragment(a) : a \in {x \in res.anchors : x.scheme \in {"http", "https"}}}

\* _fetch_and_parse_sitemap, the URLs a fetched sitemap yields
SitemapUrls(res) ==
  IF res.ctype = "text/plain"
  THEN {l \in res.locs : l.scheme \in {"http", "https"}}
  ELSE IF res.ctype \in {"application/xml", "text/xml"} /\ res.root = "urlset"
  THEN res.locs
  ELSE {}

\* a fixed order on a finite set (the order of iteration over a Python set)
RECURSIVE SetToSeq(_)
SetToSeq(S) ==
  IF S = {} THEN <<>>
  ELSE LET x == CHOOSE y \in S : TRUE IN <<x>> \o SetToSeq(S \ {x})

NewTask(kind, url, depth, parent) ==
  [kind |-> kind, url |-> url, depth |-> depth, parent |-> parent, pc |-> "new",
   out |-> 0, rem |-> 0, gap |-> -1, resp |-> "none", robots |-> "none",
   collected |-> FALSE]

\* the coroutines created for the elements of urls, appended to the task table
Spawn(ts, kind, urls, depth, parent) ==
  ts \o [i \in 1..Cardinality(urls) |-> NewTask(kind, SetToSeq(urls)[i], depth, parent)]

(***************************************************************************)
(* MasterCrawler: stop signal, robots policy, the per-URL branches.        *)
(***************************************************************************)
\* crud.get_crawl_job_status_only: the job's persisted status, read fresh
get_crawl_job_status_only == status

\* a mutant of update_crawl_job_status: the write is lost
UpdateLost(new_status) == status

\* crud.update_crawl_job_status: the status the job has after the call; a
\* job whose row is gone ("None") is left as it is
update_crawl_job_status(new_status) == IF status = "None" THEN "None" ELSE new_status

\* _check_if_stopped; poll is the outcome of random.randint(1, 100) > 95
CheckIfStopped(poll) ==
  should_stop \/ (poll /\ get_crawl_job_status_only = "stopping")

RobotsKey(u) == <<u.scheme, u.host>>

\* is_allowed_by_robots once the parser for the domain is known
\* (parser "none" is the cached 404 or a failed fetch)
RobotsAllows(parser, u) ==
  parser = "none" \/ u.path \notin RobotsDisallow(u.host)

\* a mutant of SitemapProcessed: the set is not consulted
SitemapProcessedNever(sitemap_url, processed) == FALSE

\* if sitemap_url in self.processed_sitemap_urls
SitemapProcessed(sitemap_url, processed) == sitemap_url \in processed

\* a mutant of AlreadyVisited: the visited set is not consulted
AlreadyVisitedNever(normalized_url, visited) == FALSE

\* if normalized_url in self.visited_urls
AlreadyVisited(normalized_url, visited) == normalized_url \in visited

\* a mutant of DepthExceeded: off by one
DepthExceededOffByOne(current_depth, crawl_depth) == current_depth > crawl_depth + 1

\* if current_depth > self.settings.crawl_depth
DepthExceeded(current_depth, crawl_depth) == current_depth > crawl_depth

Bundle == [tasks |-> tasks, limiters |-> limiters, fetch_log |-> fetch_log,
           files |-> downloaded_files]

Commit(b) ==
  \E v \in {b} :
    /\ tasks' = v.tasks
    /\ limiters' = v.limiters
    /\ fetch_log' = v.fetch_log
    /\ downloaded_files' = v.files

\* process_url, the link expansion (lines 485-499) up to the first await
LinksPhase(b, t, stopped) ==
  LET tk == b.tasks[t]
      res == Resource(Normalize(tk.url))
      links == {l \in extract_links_from_html(res) : l \notin visited_urls}
  IN  IF tk.depth < settings.crawl_depth /\ ~stopped /\ links # {}
      THEN [b EXCEPT !.tasks = Spawn([@ EXCEPT ![t].pc = "links"], "page", links,
                                     tk.depth + 1, t)]
      ELSE SetPc(b, t, "done")

\* process_url, the HTML part (lines 466-483) up to the first await
HtmlPhase(b, t, stopped) ==
  LET tk == b.tasks[t]
      res == Resource(Normalize(tk.url))
      sitemaps == {sm \in extract_sitemap_urls_from_html(res, tk.url) :
                     sm \notin processed_sitemap_urls /\ sm \notin visited_urls}
  IN  IF ~IsHtml(res.ctype) \/ stopped THEN SetPc(b, t, "done")
      ELSE IF sitemaps # {}
      THEN [b EXCEPT !.tasks = Spawn([@ EXCEPT ![t].pc = "sm"], "sitemap", sitemaps,
                                     tk.depth + 1, t)]
      ELSE LinksPhase(b, t, stopped)

\* create_downloaded_file and the yield of the record
RecordFile(b, t, d) ==
  [b EXCEPT !.files = @ \cup {DownloadEntry(t, b.tasks[t].url, d)},
            !.tasks[t].out = @ + 1]

\* process_url after a successful fetch (lines 419-464) up to the first await
PageContent(b, t, stopped) ==
  LET tk == b.tasks[t]
      res == Resource(Normalize(tk.url))
      Recorded(v) == HtmlPhase(v, t, stopped)
      Decided(d) ==
        IF ~d.download THEN HtmlPhase(b, t, stopped)
        ELSE IF BelowPrefetchLimit(res.size) /\ res.size # SIZE_EMPTY
        THEN CHOOSE r \in {Recorded(v) : v \in {RecordFile(b, t, d)}} : TRUE
        ELSE IF client_closed THEN HtmlPhase(b, t, stopped)
        ELSE SetPc(b, t, "dl")
  IN  CHOOSE r \in {Decided(v) : v \in {ContentDecision(tk.url, res)}} : TRUE

\* _fetch_and_parse_sitemap on a sitemap index (lines 364-370): the sitemaps
\* it lists that were not processed yet
IndexChildren(res) ==
  IF res.ctype \in {"application/xml", "text/xml"} /\ res.root = "sitemapindex"
  THEN {c \in res.locs : c \notin processed_sitemap_urls}
  ELSE {}

\* a mutant of SitemapYield: the URLs are processed at the depth of the page
\* that named the sitemap
SitemapYieldAtPageDepth(b, t, stopped, yielded) ==
  LET urls == {u \in yielded : u \notin visited_urls}
  IN  IF stopped \/ urls = {} THEN SetPc(b, t, "done")
      ELSE [b EXCEPT !.tasks = Spawn([@ EXCEPT ![t].pc = "links"], "page", urls,
                                     b.tasks[t].depth - 1, t)]

\* _process_sitemap_and_its_urls, lines 506-513: the URLs the sitemap yielded
\* become branches
SitemapYield(b, t, stopped, yielded) ==
  LET urls == {u \in yielded : u \notin visited_urls}
  IN  IF stopped \/ urls = {} THEN SetPc(b, t, "done")
      ELSE [b EXCEPT !.tasks = Spawn([@ EXCEPT ![t].pc = "links"], "page", urls,
                                     b.tasks[t].depth, t)]

\* what follows the fetch of a sitemap: an index, listed by an index itself
\* or not, starts the generators of its children (lines 371-373); a sitemap
\* listed by an index (kind "child") keeps what it yields for the index; any
\* other sitemap yields its URLs to _process_sitemap_and_its_urls
SitemapContent(b, t, stopped) ==
  LET tk == b.tasks[t]
      res == Resource(Normalize(tk.url))
  IN  IF IndexChildren(res) # {}
      THEN [b EXCEPT !.tasks = Spawn([@ EXCEPT ![t].pc = "ix"], "child",
                                     IndexChildren(res), tk.depth, t)]
      ELSE IF tk.kind = "child"
      THEN [b EXCEPT !.tasks[t].pc = "done", !.tasks[t].resp = "ok"]
      ELSE SitemapYield(b, t, stopped, SitemapUrls(res))

\* the URLs the children of the index p yielded, those of the indexes among
\* them included
RECURSIVE IndexUrls(_, _)
IndexUrls(ts, p) ==
  UNION {SitemapUrls(Resource(Normalize(ts[c].url))) \cup IndexUrls(ts, c) :
           c \in {x \in 1..Len(ts) : /\ ts[x].parent = p
                                     /\ ts[x].kind = "child"
                                     /\ ts[x].resp = "ok"}}

\* a mutant of AfterFetch: the outcome of the request is not tested
AfterFetchUntested(b, t, stopped) ==
  IF b.tasks[t].kind = "page" THEN PageContent(b, t, stopped)
  ELSE SitemapContent(b, t, stopped)

\* what follows fetch_page_content in the branch that called it: a branch
\* whose request failed (resp stays "fail") returns at once
AfterFetch(b, t, stopped) ==
  LET b0 == [b EXCEPT !.tasks[t].resp = "none"]
  IN  IF b.tasks[t].resp # "ok" THEN SetPc(b, t, "done")
      ELSE IF b.tasks[t].kind = "page" THEN PageContent(b0, t, stopped)
      ELSE SitemapContent(b0, t, stopped)

\* a mutant of ReleaseAndContinue: the limiter is released after a successful
\* request only
ReleaseOnSuccessOnly(b, t, stopped) ==
  IF b.tasks[t].resp = "ok"
  THEN AfterFetch(ReleaseLocked(b, t, DomainOf(b.tasks[t].url)), t, stopped)
  ELSE AfterFetch(b, t, stopped)

\* fetch_page_content, the finally clause and what follows, when _lock is free
ReleaseAndContinue(b, t, stopped) ==
  LET Released(v) == AfterFetch(v, t, stopped)
  IN  CHOOSE r \in {Released(v) : v \in {ReleaseLocked(b, t, DomainOf(b.tasks[t].url))}} : TRUE

\* variables no per-branch block writes
JobUnchanged ==
  UNCHANGED <<settings, status, active_crawlers, pcJob, files_processed_count, pcMain,
              initial_urls_found, files_found_count, final_status_to_set,
              client_closed, search_client, dork_results, pcDelete, external_status, aborted,
              dl, km, runs>>

\* process_url (lines 387-415) and _process_sitemap_and_its_urls with
\* _fetch_and_parse_sitemap (lines 502-504, 328-332), from the start of the
\* branch to its first await
StartTask(t) ==
  /\ t \in TaskIds
  /\ tasks[t].pc = "new"
  /\ \E poll \in BOOLEAN :
       LET tk == tasks[t]
           stopped == CheckIfStopped(poll)
           n == Normalize(tk.url)
           d == DomainOf(tk.url)
           key == RobotsKey(tk.url)
       IN  /\ should_stop' = IF /\ tk.kind = "child"
                                 /\ SitemapProcessed(tk.url, processed_sitemap_urls)
                              THEN should_stop ELSE stopped
           /\ IF tk.kind = "page"
              THEN /\ visited_urls' = IF stopped THEN visited_urls ELSE visited_urls \cup {n}
                   /\ UNCHANGED processed_sitemap_urls
                   /\ IF \/ stopped
                         \/ AlreadyVisited(n, visited_urls)
                         \/ DepthExceeded(tk.depth, settings.crawl_depth)
                      THEN Commit(SetPc(Bundle, t, "done"))
                      ELSE IF ~settings.respect_robots_txt
                      THEN Commit(Acquire(Bundle, t, d))
                      ELSE IF key \notin DOMAIN robots_parsers_cache
                      THEN IF client_closed
                           THEN Commit(Acquire(Bundle, t, d))
                           ELSE Commit(SetPc(Bundle, t, "robots"))
                      ELSE IF RobotsAllows(robots_parsers_cache[key], tk.url)
                      THEN Commit(Acquire(Bundle, t, d))
                      ELSE Commit(SetPc(Bundle, t, "done"))
              ELSE /\ visited_urls' = IF stopped \/ tk.kind = "child" THEN visited_urls
                                      ELSE visited_urls \cup {n}
                   /\ IF stopped \/ SitemapProcessed(tk.url, processed_sitemap_urls)
                      THEN /\ UNCHANGED processed_sitemap_urls
                           /\ Commit(SetPc(Bundle, t, "done"))
                      ELSE /\ processed_sitemap_urls' = processed_sitemap_urls \cup {tk.url}
                           /\ Commit(Acquire(Bundle, t, d))
  /\ UNCHANGED robots_parsers_cache
  /\ JobUnchanged

\* what a robots.txt request can end with: the two statuses the code tells
\* apart, and "error" for any other status, a timeout or a connection error
RobotsCodes == {"200", "404", "error"}

\* a mutant of RobotsOutcome: a failed request is cached like a 404
RobotsOutcomeCachesFailure(code) == [parser |-> "none", cache |-> TRUE]

\* _fetch_robots_txt_parser, lines 231-246: the parser it returns for a
\* response and whether it stores it.  On a 200, line 232 calls
\* response.text, which in httpx is a str property: the TypeError is caught
\* at line 244 before anything is parsed or stored, and None is returned as
\* for a failed request.
RobotsOutcome(code) ==
  IF code = "404" THEN [parser |-> "none", cache |-> TRUE]
  ELSE [parser |-> "none", cache |-> FALSE]

\* _fetch_robots_txt_parser from the response code of the robots.txt request
\* of branch t, then is_allowed_by_robots and process_url up to the next
\* await; b is the state of the branches the block starts from
RobotsReply(t, code, b) ==
  LET tk == tasks[t]
      key == RobotsKey(tk.url)
      outcome == RobotsOutcome(code)
  IN  /\ code # "error" => ~client_closed
      /\ robots_parsers_cache' =
           IF outcome.cache THEN (key :> outcome.parser) @@ robots_parsers_cache
           ELSE robots_parsers_cache
      /\ IF RobotsAllows(outcome.parser, tk.url)
         THEN Commit(Acquire(b, t, DomainOf(tk.url)))
         ELSE Commit(SetPc(b, t, "done"))

RobotsResponse(t) ==
  /\ t \in TaskIds
  /\ tasks[t].pc = "robots"
  /\ \E code \in RobotsCodes : RobotsReply(t, code, Bundle)
  /\ UNCHANGED <<should_stop, visited_urls, processed_sitemap_urls>>
  /\ JobUnchanged

\* RobotsResponse with a history: the branch keeps the code its robots.txt
\* request returned in its field robots
RobotsResponseLogged(t) ==
  /\ t \in TaskIds
  /\ tasks[t].pc = "robots"
  /\ \E code \in RobotsCodes :
       RobotsReply(t, code, [Bundle EXCEPT !.tasks[t].robots = code])
  /\ UNCHANGED <<should_stop, visited_urls, processed_sitemap_urls>>
  /\ JobUnchanged

\* DomainLimiter.acquire: a task waiting for _lock, at entry or after notify, gets it
LockGranted(t) ==
  /\ t \in TaskIds
  /\ tasks[t].pc \in {"lock", "relock"}
  /\ limiters[DomainOf(tasks[t].url)].lock = 0
  /\ Commit(AcquireLocked(Bundle, t, DomainOf(tasks[t].url)))
  /\ UNCHANGED <<should_stop, visited_urls, processed_sitemap_urls, robots_parsers_cache>>
  /\ JobUnchanged

\* DomainLimiter.acquire: asyncio.sleep(wait_time) returns
SleepWake(t) ==
  /\ t \in TaskIds
  /\ tasks[t].pc = "sleep"
  /\ tasks[t].rem = 0
  /\ Commit(RecordStart(Bundle, t, DomainOf(tasks[t].url)))
  /\ UNCHANGED <<should_stop, visited_urls, processed_sitemap_urls, robots_parsers_cache>>
  /\ JobUnchanged

\* fetch_page_content from the outcome of the GET: the finally clause, and
\* the caller's code up to its next await
GetResponse(t) ==
  /\ t \in TaskIds
  /\ tasks[t].pc = "get"
  /\ \E ok \in BOOLEAN, poll \in BOOLEAN :
       LET tk == tasks[t]
           b == [Bundle EXCEPT !.tasks[t].resp = IF ok THEN "ok" ELSE "fail"]
           stopped == CheckIfStopped(poll)
       IN  /\ ok => (Resource(Normalize(tk.url)).exists /\ ~client_closed)
           /\ IF limiters[DomainOf(tk.url)].lock = 0
              THEN /\ Commit(ReleaseAndContinue(b, t, stopped))
                   /\ should_stop' = stopped
              ELSE /\ Commit(SetPc(b, t, "rel"))
                   /\ UNCHANGED should_stop
  /\ UNCHANGED <<visited_urls, processed_sitemap_urls, robots_parsers_cache>>
  /\ JobUnchanged

\* DomainLimiter.release: a task waiting for _lock gets it
ReleaseGranted(t) ==
  /\ t \in TaskIds
  /\ tasks[t].pc = "rel"
  /\ limiters[DomainOf(tasks[t].url)].lock = 0
  /\ \E poll \in BOOLEAN :
       /\ Commit(ReleaseAndContinue(Bundle, t, CheckIfStopped(poll)))
       /\ should_stop' = CheckIfStopped(poll)
  /\ UNCHANGED <<visited_urls, processed_sitemap_urls, robots_parsers_cache>>
  /\ JobUnchanged

\* download_and_store_file from the outcome of its streamed GET (lines 72-152),
\* then process_url up to the next await
DownloadResponse(t) ==
  /\ t \in TaskIds
  /\ tasks[t].pc = "dl"
  /\ \E ok \in BOOLEAN, poll \in BOOLEAN :
       LET tk == tasks[t]
           res == Resource(Normalize(tk.url))
           stopped == CheckIfStopped(poll)
           stored == ok /\ res.size # SIZE_EMPTY
           b == IF stored THEN RecordFile(Bundle, t, ContentDecision(tk.url, res))
                ELSE Bundle
       IN  /\ ok => (res.exists /\ ~client_closed)
           /\ \E v \in {b} : Commit(HtmlPhase(v, t, stopped))
           /\ should_stop' = stopped
  /\ UNCHANGED <<visited_urls, processed_sitemap_urls, robots_parsers_cache>>
  /\ JobUnchanged

\* the children of p that its current as_completed loop still waits for
Awaited(ts, p) ==
  {c \in 1..Len(ts) : /\ ts[c].parent = p
                      /\ ~ts[c].collected
                      /\ ts[c].kind = CASE ts[p].pc = "sm" -> "sitemap"
                                         [] ts[p].pc = "ix" -> "child"
                                         [] OTHER -> "page"}

\* one iteration of an as_completed loop of process_url (lines 479-483, 494-498),
\* of _process_sitemap_and_its_urls (lines 515-519) or of a sitemap index
\* (lines 372-373): a finished child is taken, its results are re-yielded;
\* after the last one the branch goes on.  What an index re-yields meets the
\* stop check of line 508; the URLs become branches when the index is done.
Collect(p, c) ==
  /\ p \in TaskIds
  /\ tasks[p].pc \in {"sm", "links", "ix"}
  /\ c \in Awaited(tasks, p)
  /\ tasks[c].pc = "done"
  /\ \E poll \in BOOLEAN :
       LET checked == tasks[p].pc = "ix" =>
                        (tasks[p].kind # "child" /\ IndexUrls(tasks, p) # {})
           stopped == checked /\ CheckIfStopped(poll)
           b == [Bundle EXCEPT !.tasks[c].collected = TRUE,
                               !.tasks[p].out = @ + tasks[c].out]
       IN  /\ should_stop' = IF checked THEN stopped ELSE should_stop
           /\ IF stopped
              THEN Commit(SetPc(Bundle, p, "done"))
              ELSE IF Awaited(b.tasks, p) # {} THEN Commit(b)
              ELSE IF tasks[p].pc = "sm" THEN Commit(LinksPhase(b, p, stopped))
              ELSE IF tasks[p].pc = "ix" /\ tasks[p].kind = "child"
              THEN Commit([b EXCEPT !.tasks[p].pc = "done", !.tasks[p].resp = "ok"])
              ELSE IF tasks[p].pc = "ix"
              THEN Commit(SitemapYield(b, p, stopped, IndexUrls(b.tasks, p)))
              ELSE Commit(SetPc(b, p, "done"))
  /\ UNCHANGED <<visited_urls, processed_sitemap_urls, robots_parsers_cache>>
  /\ JobUnchanged

\* time.monotonic() - last_request_time one unit later; the model keeps the
\* difference only up to delay_seconds, beyond it the limiter does not wait
Later(lim) ==
  [lim EXCEPT !.since = IF @ < lim.delay_seconds THEN @ + 1 ELSE @]

\* the sleeps of the tasks ts[i], ts[i+1], ... one unit later
RECURSIVE SleepsLater(_, _)
SleepsLater(ts, i) ==
  IF i > Len(ts) THEN ts
  ELSE SleepsLater([ts EXCEPT ![i].rem = IF @ > 0 THEN @ - 1 ELSE @], i + 1)

\* the passage of one unit of time
Tick ==
  /\ \/ \E d \in Domains : limiters[d].since < limiters[d].delay_seconds
     \/ \E t \in TaskIds : tasks[t].pc = "sleep" /\ tasks[t].rem > 0
  /\ limiters' = [limiters EXCEPT !["a"] = Later(@), !["b"] = Later(@),
                                  !["__no_domain__"] = Later(@)]
  /\ tasks' = SleepsLater(tasks, 1)
  /\ UNCHANGED <<fetch_log, downloaded_files, should_stop, visited_urls,
                 processed_sitemap_urls, robots_parsers_cache>>
  /\ JobUnchanged

(***************************************************************************)
(* start_crawling and process_crawl_job.                                   *)
(***************************************************************************)
\* a mutant of ResolveFinalStatus: visited URLs without a match count as completed
ResolveFinalStatusByUrls(stop_is_set, files_found, initial_found) ==
  IF stop_is_set THEN "failed"
  ELSE IF files_found > 0 \/ initial_found THEN "completed" ELSE "completed_empty"

\* start_crawling, lines 601-605
ResolveFinalStatus(stop_is_set, files_found, initial_found) ==
  IF stop_is_set THEN "failed"
  ELSE IF files_found > 0 THEN "completed"
  ELSE IF initial_found THEN "completed_empty"
  ELSE "completed_empty"

\* a mutant of FinalStatus: a status other than "running" is always kept
FinalStatusKeepsStopping(current_db_status, stop_is_set, files_found, initial_found) ==
  IF current_db_status = "running"
  THEN ResolveFinalStatus(stop_is_set, files_found, initial_found)
  ELSE current_db_status

\* a mutant of FinalStatus: a job found "stopping" is resolved like a running one
FinalStatusStoppingAsRunning(current_db_status, stop_is_set, files_found, initial_found) ==
  IF current_db_status \in {"running", "stopping"}
  THEN ResolveFinalStatus(FALSE, files_found, initial_found)
  ELSE current_db_status

\* start_crawling, the decision of the finally clause (lines 600-617)
FinalStatus(current_db_status, stop_is_set, files_found, initial_found) ==
  IF current_db_status = "running"
  THEN ResolveFinalStatus(stop_is_set, files_found, initial_found)
  ELSE IF current_db_status = "stopping" THEN "failed"
  ELSE current_db_status

\* start_crawling, the finally clause up to the await of aclose (lines 594-625)
Finalise(current_db_status, stop_is_set, files_found, initial_found) ==
  /\ final_status_to_set' =
       FinalStatus(current_db_status, stop_is_set, files_found, initial_found)
  /\ status' = final_status_to_set'
  /\ pcMain' = "closing"

\* start_crawling from the end of the search step (lines 573-579): either the
\* first as_completed loop is entered or the run is finalised
BeginProcessing(initial, stopped) ==
  IF stopped \/ initial = {}
  THEN /\ Finalise(get_crawl_job_status_only, stopped, files_found_count, FALSE)
       /\ UNCHANGED <<initial_urls_found, tasks>>
  ELSE /\ initial_urls_found' = TRUE
       /\ tasks' = Spawn(tasks, "page", initial, 0, 0)
       /\ pcMain' = "loop"
       /\ UNCHANGED <<status, final_status_to_set>>

\* the seed loop of start_crawling (lines 536-542)
SeedUrls ==
  {Normalize(sd) : sd \in {x \in settings.seed_urls :
                             IsValidStartUrl(x) /\ Normalize(x) \notin visited_urls}}

\* an href on which urlparse raises ValueError
BadHref == Url("http", "[bad", <<>>, "", "")

\* what the search engine can answer to one query: no answer or an error
\* status, or a page with the hrefs of its result links in order (together
\* the queries return nothing, only unusable URLs, or a valid URL)
DorkPages ==
  {[error |-> TRUE, links |-> <<>>],
   [error |-> FALSE, links |-> <<>>],
   [error |-> FALSE, links |-> <<U_FTP>>],
   [error |-> FALSE, links |-> <<U_LOG, U_FTP>>],
   [error |-> FALSE, links |-> <<U_LOG, U_FTP, BadHref, U_NOKW>>]}

\* execute_dork, the loop over the result links (lines 72-96) from link i on:
\* each href is parsed and yielded; an href that cannot be parsed ends the
\* generator in the handler of line 106
RECURSIVE WalkLinks(_, _)
WalkLinks(links, i) ==
  IF i > Len(links) THEN [failed |-> FALSE, urls |-> {}]
  ELSE IF links[i] = BadHref THEN [failed |-> TRUE, urls |-> {}]
  ELSE LET rest == WalkLinks(links, i + 1)
       IN  [failed |-> rest.failed, urls |-> {links[i]} \cup rest.urls]

\* a mutant of execute_dork: an error of one link discards what was yielded
ExecuteDorkAllOrNothing(page) ==
  IF page.error \/ WalkLinks(page.links, 1).failed
  THEN [failed |-> TRUE, urls |-> {}]
  ELSE WalkLinks(page.links, 1)

\* search_engine_driver.execute_dork collected by _collect_async_gen: the
\* URLs the query yielded, and whether it ended in one of its handlers
execute_dork(page) ==
  IF page.error THEN [failed |-> TRUE, urls |-> {}]
  ELSE WalkLinks(page.links, 1)

BranchUnchanged ==
  UNCHANGED <<downloaded_files, visited_urls, processed_sitemap_urls,
              robots_parsers_cache, limiters, fetch_log, pcDelete,
              external_status, aborted, dl, km, runs>>

\* _get_http_client_with_proxy: a new client when the job has proxies, the
\* base client otherwise
get_http_client_with_proxy == IF settings.proxies THEN "open" ELSE "none"

\* lines 569-570: the temporary client, if there is one, is closed
CloseSearchClient == IF search_client = "open" THEN "closed" ELSE search_client

\* use_search_engines and search_dorks
SearchEnabled == settings.use_search_engines /\ settings.search_dorks # {}

\* process_crawl_job up to its first await (lines 27-42) and start_crawling up
\* to its first await (lines 523-556)
StartJob ==
  /\ pcJob = "queued"
  /\ pcJob' = "running"
  /\ active_crawlers' = TRUE
  /\ IF SearchEnabled
     THEN /\ status' = update_crawl_job_status("running")
          /\ pcMain' = "dorks"
          /\ search_client' = get_http_client_with_proxy
          /\ UNCHANGED <<initial_urls_found, tasks, final_status_to_set>>
     ELSE \* BeginProcessing reads the status written at line 531
          /\ UNCHANGED search_client
          /\ IF SeedUrls = {}
             THEN /\ Finalise(update_crawl_job_status("running"), FALSE,
                               files_found_count, FALSE)
                  /\ UNCHANGED <<initial_urls_found, tasks>>
             ELSE /\ status' = update_crawl_job_status("running")
                  /\ initial_urls_found' = TRUE
                  /\ tasks' = Spawn(tasks, "page", SeedUrls, 0, 0)
                  /\ pcMain' = "loop"
                  /\ UNCHANGED final_status_to_set
  /\ UNCHANGED <<settings, files_processed_count, should_stop, files_found_count,
                 client_closed, dork_results>>
  /\ BranchUnchanged

\* start_crawling from the return of asyncio.gather over the queries (lines
\* 556-579) to the next await
DorksGathered(logged) ==
  /\ \E pages \in [settings.search_dorks -> DorkPages], poll \in BOOLEAN :
       LET stopped == CheckIfStopped(poll)
           gathered == [q \in settings.search_dorks |-> execute_dork(pages[q])]
           results == UNION {gathered[q].urls : q \in settings.search_dorks}
           added == {Normalize(u) : u \in {x \in results :
                        /\ IsValidStartUrl(x)
                        /\ Normalize(x) \notin visited_urls
                        /\ Normalize(x) \notin SeedUrls}}
       IN  /\ should_stop' = stopped
           /\ search_client' = CloseSearchClient
           /\ dork_results' = IF logged
                               THEN {<<q, pages[q]>> : q \in settings.search_dorks}
                               ELSE results
           /\ BeginProcessing(SeedUrls \cup added, stopped)
  /\ UNCHANGED <<settings, active_crawlers, pcJob, files_processed_count,
                 files_found_count, client_closed>>
  /\ BranchUnchanged

DorksDone ==
  /\ pcMain = "dorks"
  /\ DorksGathered(FALSE)

\* DorksDone with a history: dork_results keeps, for each query, what the
\* search engine answered
DorksDoneLogged ==
  /\ pcMain = "dorks"
  /\ DorksGathered(TRUE)

\* the top-level branches the main loop still waits for
TopAwaited(ts) == {c \in 1..Len(ts) : ts[c].parent = 0 /\ ~ts[c].collected}

\* one iteration of the main loop of start_crawling (lines 580-587) with the
\* body of the loop of process_crawl_job (lines 42-52) for each record it yields
MainCollect(c) ==
  /\ pcMain = "loop"
  /\ c \in TopAwaited(tasks)
  /\ tasks[c].pc = "done"
  /\ \E poll \in BOOLEAN :
       LET stopped == CheckIfStopped(poll)
           ts == [tasks EXCEPT ![c].collected = TRUE]
           n == tasks[c].out
       IN  /\ should_stop' = stopped
           /\ IF stopped
              THEN /\ Finalise(get_crawl_job_status_only, stopped, files_found_count,
                               initial_urls_found)
                   /\ UNCHANGED <<tasks, files_found_count, files_processed_count>>
              ELSE /\ tasks' = ts
                   /\ files_found_count' = files_found_count + n
                   /\ files_processed_count' = files_processed_count + n
                   /\ IF TopAwaited(ts) = {}
                      THEN Finalise(get_crawl_job_status_only, stopped,
                                    files_found_count + n, initial_urls_found)
                      ELSE UNCHANGED <<status, final_status_to_set, pcMain>>
  /\ UNCHANGED <<settings, active_crawlers, pcJob, initial_urls_found, client_closed, search_client,
                 dork_results>>
  /\ BranchUnchanged

\* process_crawl_job, lines 59-73: the status it settles on before rescheduling
JobFinalStatus(job_status, files_processed, initial_urls_found_by_crawler) ==
  IF job_status = "running"
  THEN IF files_processed = 0 /\ ~initial_urls_found_by_crawler THEN "completed_empty"
       ELSE IF files_processed > 0 \/ initial_urls_found_by_crawler THEN "completed"
       ELSE "failed"
  ELSE job_status

\* a mutant of Reschedule: a recurring job is rescheduled whatever its run
\* ended with
RescheduleAlways(final_status, schedule_type, cron_ok) ==
  IF schedule_type = "recurring"
  THEN IF cron_ok THEN "scheduled" ELSE "failed"
  ELSE final_status

\* process_crawl_job, lines 75-111; cron_ok: croniter is importable and
\* computes the next run
Reschedule(final_status, schedule_type, cron_ok) ==
  IF schedule_type = "recurring" /\ final_status \in {"completed", "completed_empty"}
  THEN IF cron_ok THEN "scheduled" ELSE "failed"
  ELSE final_status

\* start_crawling from the return of aclose to its end (lines 625-628), then
\* process_crawl_job to its end (lines 55-137)
JobFinish ==
  /\ pcMain = "closing"
  /\ pcMain' = "ended"
  /\ client_closed' = TRUE
  /\ UNCHANGED search_client
  /\ \E schedule_type \in {"none", "recurring"}, cron_ok \in BOOLEAN :
       status' = Reschedule(JobFinalStatus(status, files_processed_count,
                                           files_processed_count > 0 /\ initial_urls_found),
                            schedule_type, cron_ok)
  /\ active_crawlers' = FALSE
  /\ pcJob' = "done"
  /\ UNCHANGED <<settings, files_processed_count, should_stop, initial_urls_found,
                 files_found_count, final_status_to_set, tasks, dork_results>>
  /\ BranchUnchanged

\* stop_crawl_job_endpoint with MasterCrawler.stop_crawler
StopRequest ==
  /\ status \in {"running", "pending", "scheduled"}
  /\ IF active_crawlers
     THEN /\ status' = "stopping"
          /\ should_stop' = TRUE
     ELSE /\ status \in {"pending", "scheduled"}
          /\ status' = "failed"
          /\ UNCHANGED should_stop
  /\ UNCHANGED <<settings, active_crawlers, pcJob, files_processed_count, pcMain,
                 initial_urls_found, files_found_count, final_status_to_set,
                 client_closed, search_client, tasks, dork_results>>
  /\ BranchUnchanged

(***************************************************************************)
(* Faults and other writers of the job: an exception that escapes the      *)
(* per-URL boundary, the deletion of the job, a status written by another  *)
(* collaborator that shares the database.                                  *)
(***************************************************************************)
FaultUnchanged ==
  UNCHANGED <<settings, files_processed_count, visited_urls, processed_sitemap_urls,
              robots_parsers_cache, initial_urls_found, files_found_count,
              tasks, limiters, fetch_log, dork_results, dl, km, runs>>

\* start_crawling when an exception reaches its outer handler (lines 590-593),
\* then the finally clause up to the await of aclose (lines 594-625)
Abort ==
  /\ pcMain \in {"dorks", "loop"}
  /\ aborted' = TRUE
  /\ Finalise(update_crawl_job_status("failed"), should_stop, files_found_count,
              initial_urls_found)
  /\ UNCHANGED <<downloaded_files, active_crawlers, pcJob, should_stop, client_closed, search_client,
                 pcDelete, external_status>>
  /\ FaultUnchanged

\* start_crawling from the return of aclose to its end, then process_crawl_job
\* when an exception reaches its handler (lines 122-136)
JobAbort ==
  /\ pcMain = "closing"
  /\ pcMain' = "ended"
  /\ client_closed' = TRUE
  /\ UNCHANGED search_client
  /\ aborted' = TRUE
  /\ status' = update_crawl_job_status("failed")
  /\ active_crawlers' = FALSE
  /\ pcJob' = "done"
  /\ UNCHANGED <<downloaded_files, should_stop, final_status_to_set, pcDelete,
                 external_status>>
  /\ FaultUnchanged

\* delete_crawl_job_endpoint up to its first await (lines 208-220), with
\* MasterCrawler.stop_crawler: an active job is stopped and the deletion
\* waits, any other job is deleted at once
DeleteRequest ==
  /\ pcDelete = "idle"
  /\ external_status = "none"
  /\ status # "None"
  /\ IF active_crawlers
     THEN /\ should_stop' = TRUE
          /\ status' = IF should_stop THEN status ELSE update_crawl_job_status("stopping")
          /\ pcDelete' = "sleep"
          /\ UNCHANGED downloaded_files
     ELSE /\ status' = "None"
          /\ downloaded_files' = {}
          /\ pcDelete' = "done"
          /\ UNCHANGED should_stop
  /\ UNCHANGED <<active_crawlers, pcJob, pcMain, final_status_to_set, client_closed, search_client,
                 external_status, aborted>>
  /\ FaultUnchanged

\* delete_crawl_job_endpoint from the end of its sleep (lines 220-232):
\* crud.delete_crawl_job_and_get_file_paths removes the job and, by cascade,
\* its DownloadedFile rows
DeleteRow ==
  /\ pcDelete = "sleep"
  /\ pcDelete' = "done"
  /\ status' = "None"
  /\ downloaded_files' = {}
  /\ UNCHANGED <<active_crawlers, pcJob, pcMain, should_stop, final_status_to_set,
                 client_closed, search_client, external_status, aborted>>
  /\ FaultUnchanged

\* the status another writer gives a job that is being run
ExternalStatuses == {"completed"}

\* crud.update_crawl_job_status called by another collaborator while the job
\* is being run; one run meets one such change or one deletion
ExternalStatusChange ==
  /\ pcJob = "running"
  /\ external_status = "none"
  /\ pcDelete = "idle"
  /\ status # "None"
  /\ \E st \in ExternalStatuses :
       /\ status' = update_crawl_job_status(st)
       /\ external_status' = st
  /\ UNCHANGED <<downloaded_files, active_crawlers, pcJob, pcMain, should_stop,
                 final_status_to_set, client_closed, search_client, pcDelete, aborted>>
  /\ FaultUnchanged

(***************************************************************************)
(* download_and_store_file taken alone.  dl.file is what lies at           *)
(* local_file_path: -1 when nothing does, else the number of chunks        *)
(* written; checksum_md5 tells whether checksum_md5_hex was set.           *)
(***************************************************************************)
MaxChunks == 2

\* max_filename_len
max_filename_len == 100

\* the variables of the job, which a function taken alone leaves alone
job_vars == <<settings, status, downloaded_files, active_crawlers, pcJob,
              files_processed_count, pcMain, should_stop, visited_urls,
              processed_sitemap_urls, robots_parsers_cache, initial_urls_found,
              files_found_count, final_status_to_set, client_closed, search_client, tasks,
              limiters, fetch_log, dork_results, pcDelete, external_status,
              aborted>>

\* the character repeated n times
Repeat(c, n) == [i \in 1..n |-> c]

\* uuid.uuid4().hex
UuidHex == Repeat("f", 32)

\* str.isalnum() on one ASCII character
IsAlnum(c) ==
  \/ \E i \in 1..Len(LowerChars) : LowerChars[i] = c \/ UpperChars[i] = c
  \/ c \in Digits

\* line 44: every character outside the allowed set becomes '_'
Sanitize(name) ==
  [i \in 1..Len(name) |->
     IF IsAlnum(name[i]) \/ name[i] \in {".", "_", "-"} THEN name[i] ELSE "_"]

\* os.path.splitext on a name without separators: the extension starts at
\* the last dot, unless only dots precede it
Splitext(name) ==
  LET i == RfindDot(name)
  IN  IF i > 0 /\ \E j \in 1..(i - 1) : name[j] # "."
      THEN [root |-> SubSeq(name, 1, i - 1), ext |-> SubSeq(name, i, Len(name))]
      ELSE [root |-> name, ext |-> <<>>]

\* the slice s[:k] of Python, k of either sign
SliceTo(s, k) ==
  IF k >= 0 THEN SubSeq(s, 1, IF k < Len(s) THEN k ELSE Len(s))
  ELSE SubSeq(s, 1, IF Len(s) + k > 0 THEN Len(s) + k ELSE 0)

\* lines 46-50
CapLength(local_filename) ==
  IF Len(local_filename) > max_filename_len
  THEN LET parts == Splitext(local_filename)
       IN  SliceTo(parts.root, max_filename_len - Len(parts.ext) - 1) \o parts.ext
  ELSE local_filename

\* lines 42-53: the name of the file inside the job's directory
LocalFilename(file_meta) ==
  LET fallback == UuidHex \o <<".">> \o
                    (IF file_meta.extension # <<>> THEN file_meta.extension
                     ELSE <<"d", "a", "t">>)
      capped == CapLength(Sanitize(IF file_meta.name # <<>> THEN file_meta.name
                                   ELSE fallback))
  IN  IF capped = <<>> \/ capped = <<".">> THEN fallback ELSE capped

NoDownload ==
  [pc |-> "none", url |-> U_REP, ct |-> "", existing |-> "none",
   local_filename |-> <<>>, file |-> -1, file_size_bytes |-> 0,
   checksum_md5 |-> FALSE, result |-> "pending"]

\* a mutant of Cleanup: only an empty file is removed
CleanupEmptyOnly(d) ==
  [d EXCEPT !.file = IF d.file >= 0 /\ d.file_size_bytes = 0 THEN -1 ELSE @,
            !.result = "None", !.pc = "returned"]

\* lines 136-152: an exception was caught; what lies at local_file_path is
\* removed if nothing was counted or no checksum was taken; None is returned
Cleanup(d) ==
  [d EXCEPT !.file = IF d.file >= 0 /\ (d.file_size_bytes = 0 \/ ~d.checksum_md5)
                     THEN -1 ELSE @,
            !.result = "None", !.pc = "returned"]

\* lines 88-133: the checksum is taken; a record is returned for a file that
\* is not empty, an empty file is removed
Finish(d) ==
  IF d.file_size_bytes > 0
  THEN [d EXCEPT !.checksum_md5 = TRUE, !.result = "entry", !.pc = "returned"]
  ELSE [d EXCEPT !.checksum_md5 = TRUE, !.file = -1, !.result = "None",
                 !.pc = "returned"]

\* download_and_store_file up to its first await (lines 39-72): the name is
\* settled; content the crawler already holds is written at once (io: the
\* write succeeds, fails after open, or open fails), otherwise the request
\* is sent
DownloadCall ==
  /\ dl.pc = "called"
  /\ \E io \in {"ok", "write_fails", "open_fails"} :
       LET named == [dl EXCEPT !.local_filename =
                       LocalFilename(identify_file_type_and_name(dl.url, dl.ct))]
       IN  dl' = IF dl.existing = "bytes"
                 THEN CASE io = "ok" ->
                             Finish([named EXCEPT !.file = 1, !.file_size_bytes = 1])
                        [] io = "write_fails" -> Cleanup([named EXCEPT !.file = 0])
                        [] OTHER -> Cleanup(named)
                 ELSE [named EXCEPT !.pc = "stream"]
  /\ UNCHANGED <<job_vars, km, runs>>

\* from the response of client.stream to the first chunk (lines 72-82)
StreamResponse ==
  /\ dl.pc = "stream"
  /\ \E outcome \in {"ok", "request_error", "status_error", "open_fails"} :
       dl' = IF outcome = "ok" THEN [dl EXCEPT !.file = 0, !.pc = "body"]
             ELSE Cleanup(dl)
  /\ UNCHANGED <<job_vars, km, runs>>

\* one turn of the loop over response.aiter_bytes (lines 82-85), its end, or
\* an error of the stream or of the write
BodyStep ==
  /\ dl.pc = "body"
  /\ \E ev \in {"chunk", "end", "error"} :
       /\ ev = "chunk" => dl.file_size_bytes < MaxChunks
       /\ dl' = CASE ev = "chunk" ->
                       [dl EXCEPT !.file = @ + 1, !.file_size_bytes = @ + 1]
                  [] ev = "end" -> Finish(dl)
                  [] OTHER -> Cleanup(dl)
  /\ UNCHANGED <<job_vars, km, runs>>

(***************************************************************************)
(* match_keywords_in_text taken alone.                                     *)
(***************************************************************************)
NoMatch == [pc |-> "none", text |-> <<>>, keywords |-> {}, result |-> {}]

\* keyword_matcher.match_keywords_in_text, from call to return
MatchCall ==
  /\ km.pc = "called"
  /\ km' = [km EXCEPT !.result = match_keywords_in_text(km.text, km.keywords),
                      !.pc = "returned"]
  /\ UNCHANGED <<job_vars, dl, runs>>

(***************************************************************************)
(* One job and every background task queued for it: create_new_crawl_job,  *)
(* manually_run_job and stop_crawl_job_endpoint with process_crawl_job.    *)
(* runs.status is CrawlJob.status, runs.registry the run whose crawler     *)
(* active_crawlers holds for the job (0: the job is not in it), and        *)
(* runs.task[r] one call of process_crawl_job: its position, the stop      *)
(* event of its crawler, and what its crawl found.                         *)
(***************************************************************************)
MaxRuns == 3

RunIds == 1..MaxRuns

NoTask == [pc |-> "none", should_stop |-> FALSE, files |-> 0, initial |-> FALSE]

NoRuns == [status |-> "None", registry |-> 0, task |-> [r \in RunIds |-> NoTask]]

\* background_tasks.add_task(process_crawl_job, ...): the first unused task
AddTask(task) ==
  LET r == CHOOSE x \in RunIds :
             task[x].pc = "none" /\ \A y \in RunIds : y < x => task[y].pc # "none"
  IN  [task EXCEPT ![r].pc = "queued"]

\* create_new_crawl_job: a job without a schedule is pending and its task is
\* queued, a job with one is scheduled and no task is queued
CreateJob(scheduled) ==
  IF scheduled
  THEN [NoRuns EXCEPT !.status = "scheduled"]
  ELSE [NoRuns EXCEPT !.status = "pending", !.task = AddTask(@)]

\* the runs whose crawler is executing
Executing == {r \in RunIds : runs.task[r].pc \in {"crawling", "closing"}}

\* process_crawl_job up to its first await (lines 27-42) with start_crawling
\* up to its first await
RunStart(r) ==
  /\ runs.task[r].pc = "queued"
  /\ runs' = [runs EXCEPT !.status = "running", !.registry = r,
                          !.task[r].pc = "crawling"]
  /\ UNCHANGED <<job_vars, dl, km>>

\* start_crawling from its loops to the await of aclose: what the crawl found,
\* the last _check_if_stopped, and the finally clause (lines 594-625)
RunFinalise(r) ==
  /\ runs.task[r].pc = "crawling"
  /\ \E files \in 0..1, initial \in BOOLEAN, poll \in BOOLEAN :
       LET stopped == runs.task[r].should_stop \/ (poll /\ runs.status = "stopping")
       IN  runs' = [runs EXCEPT
                      !.status = FinalStatus(@, stopped, files, initial),
                      !.task[r] = [pc |-> "closing", should_stop |-> stopped,
                                   files |-> files, initial |-> initial]]
  /\ UNCHANGED <<job_vars, dl, km>>

\* process_crawl_job from the end of start_crawling to its end (lines 55-137)
RunEnd(r) ==
  /\ runs.task[r].pc = "closing"
  /\ \E schedule_type \in {"none", "recurring"}, cron_ok \in BOOLEAN :
       runs' = [runs EXCEPT
                  !.status = Reschedule(JobFinalStatus(@, runs.task[r].files,
                                           runs.task[r].files > 0 /\ runs.task[r].initial),
                                        schedule_type, cron_ok),
                  !.registry = 0,
                  !.task[r].pc = "done"]
  /\ UNCHANGED <<job_vars, dl, km>>

\* stop_crawl_job_endpoint with MasterCrawler.stop_crawler (lines 235-270)
RunStopRequest ==
  /\ runs.status \in {"running", "pending", "scheduled"}
  /\ IF runs.registry # 0
     THEN runs' = [runs EXCEPT !.status = "stopping",
                               !.task[runs.registry].should_stop = TRUE]
     ELSE /\ runs.status \in {"pending", "scheduled"}
          /\ runs' = [runs EXCEPT !.status = "failed"]
  /\ UNCHANGED <<job_vars, dl, km>>

\* manually_run_job, the tests of lines 284-293
ManualRunRejected ==
  \/ runs.status = "running"
  \/ runs.status = "pending"
  \/ runs.registry # 0

\* manually_run_job (lines 273-334): an accepted request
ManualRun ==
  /\ ~ManualRunRejected
  /\ \E r \in RunIds : runs.task[r].pc = "none"
  /\ runs' = [runs EXCEPT !.status = "pending", !.task = AddTask(@)]
  /\ UNCHANGED <<job_vars, dl, km>>

(***************************************************************************)
(* The job configurations explored, and the specification.                 *)
(***************************************************************************)
\* search_dorks and use_search_engines: no query, search disabled, search on
NoDorks == <<{}, TRUE>>
SearchOff == <<{"filetype:sql"}, FALSE>>
SearchOn == <<{"filetype:sql"}, TRUE>>

\* seed_urls with the search settings: the crawls of the two sites run without
\* search, the search runs beside seed lists of at most one page
FrontierChoices ==
  ({{}, {U_FTP, U_NOHOST}, {U_LOG}} \X {NoDorks, SearchOff, SearchOn})
    \cup ({{U_INDEX, U_INDEX_Q}, {U_PG}} \X {SearchOff})

\* three files on two domains, fetched side by side
TwoDomainFrontier == <<{U_LOG, U_REP, U_NOKW}, SearchOff>>

Settings(frontier, depth, robots, delay, conc) ==
  [keywords |-> {KW_REP, KW_NIK, KW_KTP},
   file_extensions |-> {<<".">> \o EXT_SQL, <<"T","X","T">>},
   seed_urls |-> frontier[1],
   search_dorks |-> frontier[2][1],
   use_search_engines |-> frontier[2][2],
   crawl_depth |-> depth,
   respect_robots_txt |-> robots,
   request_delay_seconds |-> delay,
   max_concurrent_requests_per_domain |-> conc,
   proxies |-> FALSE]

SettingsChoices ==
  {Settings(frontier, depth, robots, delay, conc) :
     frontier \in FrontierChoices, depth \in 0..MaxDepth,
     robots \in BOOLEAN, delay \in 0..MaxDelay, conc \in 1..MaxConcurrent}
    \cup {Settings(TwoDomainFrontier, 0, FALSE, delay, conc) :
            delay \in 0..MaxDelay, conc \in 1..MaxConcurrent}

\* the state when the job was created and queued, for one of the settings
\* in choices
JobInit(choices) ==
  /\ settings \in choices
  /\ status = "pending"
  /\ downloaded_files = {}
  /\ active_crawlers = FALSE
  /\ pcJob = "queued"
  /\ files_processed_count = 0
  /\ pcMain = "idle"
  /\ should_stop = FALSE
  /\ visited_urls = {}
  /\ processed_sitemap_urls = {}
  /\ robots_parsers_cache = <<>>
  /\ initial_urls_found = FALSE
  /\ files_found_count = 0
  /\ final_status_to_set = "unknown"
  /\ client_closed = FALSE
  /\ search_client = "none"
  /\ tasks = <<>>
  /\ limiters = [d \in Domains |->
                   NewLimiter(settings.request_delay_seconds,
                              settings.max_concurrent_requests_per_domain)]
  /\ fetch_log = {}
  /\ dork_results = {}
  /\ pcDelete = "idle"
  /\ external_status = "none"
  /\ aborted = FALSE

\* the job created and queued, no function taken alone
InitWith(choices) ==
  /\ JobInit(choices)
  /\ dl = NoDownload
  /\ km = NoMatch
  /\ runs = NoRuns

Init == InitWith(SettingsChoices)

\* the names a URL can end in, as download_and_store_file meets them
N_ENC == <<"a","%","b",".","s","q","l">>
N_DOTS == <<".",".",".">>
N_LONGEXT == <<"x",".">> \o Repeat("a", 120)
N_LONGROOT == Repeat("a", 120) \o <<".">> \o EXT_SQL
N_LONGBARE == Repeat("a", 101)

DownloadNames == {<<>>, N_REP, N_PG, N_ENC, N_DOTS, N_LONGEXT, N_LONGROOT, N_LONGBARE}

\* one call of download_and_store_file: a URL, the Content-Type of its
\* response, and the content the crawler holds already (none, b"", or bytes)
DownloadInit ==
  /\ JobInit({Settings(<<{}, SearchOff>>, 0, FALSE, 0, 1)})
  /\ \E name \in DownloadNames, ct \in {"", "text/plain"},
        existing \in {"none", "empty", "bytes"} :
       dl = [NoDownload EXCEPT !.pc = "called",
                               !.url = Url("http", "a", name, "", ""),
                               !.ct = ct, !.existing = existing]
  /\ km = NoMatch
  /\ runs = NoRuns

DownloadNext == DownloadCall \/ StreamResponse \/ BodyStep

DownloaderSpec == DownloadInit /\ [][DownloadNext]_vars

\* a job created with or without a schedule
RunsInit ==
  /\ JobInit({Settings(<<{}, SearchOff>>, 0, FALSE, 0, 1)})
  /\ dl = NoDownload
  /\ km = NoMatch
  /\ \E scheduled \in BOOLEAN : runs = CreateJob(scheduled)

RunsNext ==
  \/ \E r \in RunIds : RunStart(r)
  \/ \E r \in RunIds : RunFinalise(r)
  \/ \E r \in RunIds : RunEnd(r)
  \/ RunStopRequest
  \/ ManualRun

RunsSpec == RunsInit /\ [][RunsNext]_vars

\* texts and keywords handed to match_keywords_in_text
T_NIK123 == <<"N","I","K","-","1","2","3">>
T_NONIK == <<"N","o","n","i","k","n","a","m","e">>
T_AXB == <<"a","x","b"," ","n","i","k">>
T_ADOTB == <<"R","e","p",":","A",".","b">>
T_CPP == <<"c","+","+"," ","r","e","p","_","1">>
KW_LOWNIK == <<"n","i","k">>
KW_ADOTB == <<"a",".","b">>
KW_CPP == <<"c","+","+">>

MatchTexts == {<<>>, T_NIK123, T_NONIK, T_AXB, T_ADOTB, T_CPP}
MatchKeywords == {KW_NIK, KW_LOWNIK, KW_REP, KW_ADOTB, KW_CPP}

MatchInit ==
  /\ JobInit({Settings(<<{}, SearchOff>>, 0, FALSE, 0, 1)})
  /\ dl = NoDownload
  /\ \E text \in MatchTexts, keywords \in SUBSET MatchKeywords :
       km = [NoMatch EXCEPT !.pc = "called", !.text = text, !.keywords = keywords]
  /\ runs = NoRuns

MatcherSpec == MatchInit /\ [][MatchCall]_vars

\* the examples at the end of keyword_matcher.py with underscores in the text
T_ARCHIVE ==
  <<"a","r","c","h","i","v","e","_","d","a","t","a",".","z","i","p">>
T_USERDB ==
  <<"U","s","e","r","_","d","a","t","a","b","a","s","e","_","d","u","m",
    "p",".","s","q","l",".","g","z"," ","c","o","n","t","a","i","n","s",
    " ","u","s","e","r"," ","c","r","e","d","e","n","t","i","a","l","s",
    ".">>
T_APIKEY == <<"A","P","I","_","K","E","Y","_","V","A","L","U","E">>
KW_DATA == <<"d","a","t","a">>
KW_ZIP == <<"z","i","p">>
KW_DATABASE == <<"d","a","t","a","b","a","s","e">>
KW_CREDENTIALS == <<"c","r","e","d","e","n","t","i","a","l","s">>
KW_USER == <<"u","s","e","r">>
KW_API_KEY == <<"a","p","i","_","k","e","y">>

ExampleTexts == {T_ARCHIVE, T_USERDB, T_APIKEY}
ExampleKeywords == {KW_DATA, KW_ZIP, KW_DATABASE, KW_CREDENTIALS, KW_USER, KW_API_KEY}

ExamplesInit ==
  /\ JobInit({Settings(<<{}, SearchOff>>, 0, FALSE, 0, 1)})
  /\ dl = NoDownload
  /\ \E text \in ExampleTexts, keywords \in SUBSET ExampleKeywords :
       km = [NoMatch EXCEPT !.pc = "called", !.text = text, !.keywords = keywords]
  /\ runs = NoRuns

ExamplesSpec == ExamplesInit /\ [][MatchCall]_vars

Next ==
  \/ StartJob
  \/ DorksDone
  \/ \E t \in TaskIds : StartTask(t)
  \/ \E t \in TaskIds : RobotsResponse(t)
  \/ \E t \in TaskIds : LockGranted(t)
  \/ \E t \in TaskIds : SleepWake(t)
  \/ \E t \in TaskIds : GetResponse(t)
  \/ \E t \in TaskIds : ReleaseGranted(t)
  \/ \E t \in TaskIds : DownloadResponse(t)
  \/ \E p \in TaskIds, c \in TaskIds : Collect(p, c)
  \/ \E c \in TaskIds : MainCollect(c)
  \/ JobFinish
  \/ StopRequest
  \/ Tick

Spec == Init /\ [][Next]_vars

\* what the event loop and the network do; a stop request is not among it
Progress ==
  \/ Tick
  \/ StartJob
  \/ JobFinish
  \/ DorksDone
  \/ \E c \in TaskIds : MainCollect(c)
  \/ \E t \in TaskIds : SleepWake(t)
  \/ \E t \in TaskIds : LockGranted(t)
  \/ \E t \in TaskIds : StartTask(t)
  \/ \E t \in TaskIds : RobotsResponse(t)
  \/ \E p \in TaskIds, c \in TaskIds : Collect(p, c)
  \/ \E t \in TaskIds : GetResponse(t)
  \/ \E t \in TaskIds : ReleaseGranted(t)
  \/ \E t \in TaskIds : DownloadResponse(t)

\* While a request is in flight, a sleep is pending or a coroutine can run,
\* one of them goes on: requests return, sleeps end, the event loop runs.
Fairness == WF_vars(Progress)

\* the settings under which every wait of a branch occurs: robots.txt is
\* fetched, the limiter delays, and its slots do or do not run out
WaitingChoices ==
  {st \in SettingsChoices : /\ st.respect_robots_txt
                            /\ st.request_delay_seconds = MaxDelay
                            /\ st.crawl_depth = MaxDepth}

FairSpec == InitWith(WaitingChoices) /\ [][Next]_vars /\ Fairness

\* two seed pages that name the same sitemap index, the second one a second
\* index with the same child, crawled side by side; with them the settings
\* under which every wait occurs
SitemapChoices ==
  {Settings(<<{U_P1, U_P2}, SearchOff>>, 1, FALSE, 0, MaxConcurrent)} \cup WaitingChoices

SitemapSpec == InitWith(SitemapChoices) /\ [][Next]_vars

\* a page that names the two indexes of a cycle of sitemap indexes; with it
\* the settings under which every wait occurs
CycleChoices ==
  {Settings(<<{U_P3}, SearchOff>>, 1, FALSE, 0, MaxConcurrent)} \cup WaitingChoices

CycleSpec == InitWith(CycleChoices) /\ [][Next]_vars /\ Fairness

\* a page that names a sitemap beside a page that links to the same URL; with
\* them the settings under which every wait occurs
CrossChoices ==
  {Settings(<<{U_P4, U_L1}, SearchOff>>, 1, FALSE, 0, 1)} \cup WaitingChoices

CrossSpec == InitWith(CrossChoices) /\ [][Next]_vars

\* two seed pages: one links to a file, the other to a page at crawl_depth
\* whose sitemap lists the same file; with them the settings under which
\* every wait occurs
DepthChoices ==
  {Settings(<<{U_A1, U_D1}, SearchOff>>, 1, FALSE, 0, 1)} \cup WaitingChoices

DepthSpec == InitWith(DepthChoices) /\ [][Next]_vars

\* two seed files of one name on two hosts; with them the settings under
\* which every wait occurs
NamesakeChoices ==
  {Settings(<<{U_REP, U_BIG}, SearchOff>>, 0, FALSE, 0, 1)} \cup WaitingChoices

NamesakeSpec == InitWith(NamesakeChoices) /\ [][Next]_vars

\* Next with the history of the robots.txt responses
RobotsNext ==
  \/ StartJob
  \/ DorksDone
  \/ \E t \in TaskIds : StartTask(t)
  \/ \E t \in TaskIds : RobotsResponseLogged(t)
  \/ \E t \in TaskIds : LockGranted(t)
  \/ \E t \in TaskIds : SleepWake(t)
  \/ \E t \in TaskIds : GetResponse(t)
  \/ \E t \in TaskIds : ReleaseGranted(t)
  \/ \E t \in TaskIds : DownloadResponse(t)
  \/ \E p \in TaskIds, c \in TaskIds : Collect(p, c)
  \/ \E c \in TaskIds : MainCollect(c)
  \/ JobFinish
  \/ StopRequest
  \/ Tick

RobotsSpec == InitWith(WaitingChoices) /\ [][RobotsNext]_vars

\* one seed page that links to report.sql and to one .jpg, depth 1, the
\* extension sql and the keyword report
EndToEndSettings(robots) ==
  [Settings(<<{U_HOME}, SearchOff>>, 1, robots, 0, MaxConcurrent)
     EXCEPT !.keywords = {KW_REPORT}, !.file_extensions = {EXT_SQL}]

\* the end-to-end job; with it the settings under which every wait occurs
EndToEndChoices == {EndToEndSettings(robots) : robots \in BOOLEAN} \cup WaitingChoices

EndToEndSpec == InitWith(EndToEndChoices) /\ [][Next]_vars

\* the job with proxies among errors that end the run: the settings under
\* which every wait occurs, with proxies configured
ClientChoices == {[st EXCEPT !.proxies = TRUE] : st \in WaitingChoices}

ClientNext == Next \/ Abort \/ JobAbort

ClientSpec == InitWith(ClientChoices) /\ [][ClientNext]_vars /\ Fairness

\* Next with the history of the search queries
SearchNext ==
  \/ StartJob
  \/ DorksDoneLogged
  \/ \E t \in TaskIds : StartTask(t)
  \/ \E t \in TaskIds : RobotsResponse(t)
  \/ \E t \in TaskIds : LockGranted(t)
  \/ \E t \in TaskIds : SleepWake(t)
  \/ \E t \in TaskIds : GetResponse(t)
  \/ \E t \in TaskIds : ReleaseGranted(t)
  \/ \E t \in TaskIds : DownloadResponse(t)
  \/ \E p \in TaskIds, c \in TaskIds : Collect(p, c)
  \/ \E c \in TaskIds : MainCollect(c)
  \/ JobFinish
  \/ StopRequest
  \/ Tick

\* two queries beside a seed list of at most one page; with them the
\* settings under which every wait occurs
SearchChoices ==
  {Settings(<<seeds, <<{"filetype:sql", "intitle:index"}, TRUE>> >>, 0, FALSE, 0, 1) :
     seeds \in {{}, {U_NOKW}}} \cup WaitingChoices

SearchSpec == InitWith(SearchChoices) /\ [][SearchNext]_vars

\* the job among faults and other writers
FaultNext ==
  \/ Next
  \/ Abort
  \/ JobAbort
  \/ DeleteRequest
  \/ DeleteRow
  \/ ExternalStatusChange

\* the settings of FairSpec that crawl the second site, or search beside
\* one seed
FaultChoices ==
  {st \in WaitingChoices :
     \/ st.seed_urls = {U_PG}
     \/ st.seed_urls = {U_LOG} /\ st.use_search_engines /\ st.search_dorks # {}}

FaultSpec == InitWith(FaultChoices) /\ [][FaultNext]_vars

(***************************************************************************)
(* The properties checked.                                                 *)
(***************************************************************************)
\* start_crawling has passed its finally clause
RunEnded == pcMain \in {"closing", "ended"}

\* C1: when a run ends by natural exhaustion (no stop was requested), the
\* status the run resolves and writes is completed if at least one record was
\* captured, and completed_empty if none was, also when URLs were fetched
C1_NaturalExhaustionStatus ==
  (RunEnded /\ ~should_stop) =>
    /\ final_status_to_set =
         IF downloaded_files # {} THEN "completed" ELSE "completed_empty"
    /\ pcMain = "closing" => status = final_status_to_set

\* a run that captured a record ended naturally and is completed
C1_Witness ==
  /\ pcMain = "closing"
  /\ ~should_stop
  /\ downloaded_files # {}
  /\ fetch_log # {}
  /\ status = "completed"

\* no seed and no search result is a valid start URL
NoValidStartUrl ==
  \A u \in settings.seed_urls \cup dork_results :
    u.scheme \notin {"http", "https"} \/ u.host = ""

C3_StoppedNeverCompleted ==
  [][should_stop => /\ status' \notin {"completed", "completed_empty"}
                    /\ downloaded_files \subseteq downloaded_files']_vars

\* a stopped run that had captured a record has ended, failed, with the record
C3_Witness ==
  /\ should_stop
  /\ pcJob = "done"
  /\ downloaded_files # {}
  /\ status = "failed"

\* C4: after a stop reached the active run, the run terminates and the status
\* becomes failed and stays failed
C4_StopLeadsToFailed == should_stop ~> [](pcJob = "done" /\ status = "failed")

\* a stopped run whose branches were still at work has ended, failed
C4_Witness ==
  /\ should_stop
  /\ pcJob = "done"
  /\ status = "failed"
  /\ \E f \in fetch_log : f.after_stop

C6_PageFetchedAtMostOnce ==
  \A f, g \in fetch_log :
    (f.kind = "page" /\ g.kind = "page" /\ Normalize(f.url) = Normalize(g.url))
      => f.task = g.task

\* a second branch for a URL that was fetched ended without a fetch
C6_Witness ==
  \E f \in fetch_log, t \in TaskIds :
    /\ f.kind = "page"
    /\ tasks[t].kind = "page"
    /\ t # f.task
    /\ Normalize(tasks[t].url) = Normalize(f.url)
    /\ tasks[t].pc = "done"

\* C7: no page is fetched by a branch whose depth exceeds crawl_depth
C7_NoPageFetchBeyondDepth ==
  \A f \in fetch_log : f.kind = "page" => f.depth <= settings.crawl_depth

\* a page found in a sitemap one level below crawl_depth was dropped, unfetched
C7_Witness ==
  \E t \in TaskIds :
    /\ tasks[t].kind = "page"
    /\ tasks[t].depth > settings.crawl_depth
    /\ tasks[t].pc = "done"
    /\ tasks[tasks[t].parent].kind = "sitemap"
    /\ \A f \in fetch_log : f.task # t

\* C8: every record was made for a fetched resource of a target extension,
\* and its keywords are a non-empty subset of the configured ones, each one
\* found in the file name or in the content
C8_RecordsMatchCriteria ==
  \A r \in downloaded_files :
    /\ \E f \in fetch_log : f.task = r.task /\ f.url = r.file_url
    /\ \E ext \in settings.file_extensions :
         Lower(LstripDot(ext)) = Lower(r.file_type)
    /\ r.keywords_found # {}
    /\ r.keywords_found \subseteq settings.keywords
    /\ \A kw \in r.keywords_found :
         \/ SearchWholeWord(Lower(r.name), Lower(kw))
         \/ SearchWholeWord(Lower(Resource(Normalize(r.file_url)).body), Lower(kw))

\* a record exists, and beside it a fetched target file without a keyword and
\* nothing recorded for it
C8_Witness ==
  /\ \E r \in downloaded_files : r.file_url = U_BIG
  /\ \E f \in fetch_log :
       /\ f.url = U_NOKW
       /\ tasks[f.task].pc = "done"
       /\ \A r \in downloaded_files : r.file_url # U_NOKW

\* C9: the outstanding requests of each limiter stay within 0..max_concurrent
C9_ActiveRequestsBounded ==
  \A d \in Domains :
    /\ limiters[d].active_requests >= 0
    /\ limiters[d].active_requests <= limiters[d].max_concurrent

\* a limiter is full and a task waits on its condition
C9_Witness ==
  \E d \in Domains :
    /\ limiters[d].active_requests = limiters[d].max_concurrent
    /\ limiters[d].waiters # <<>>

\* C10: every request start a limiter recorded came at least delay_seconds
\* after the previous start the limiter recorded
C10_StartsSpacedByDelay ==
  \A t \in TaskIds :
    tasks[t].gap # -1 => tasks[t].gap >= limiters[DomainOf(tasks[t].url)].delay_seconds

\* two requests to one domain were started under a positive delay
C10_Witness ==
  \E t, u \in TaskIds :
    /\ t # u
    /\ DomainOf(tasks[t].url) = DomainOf(tasks[u].url)
    /\ limiters[DomainOf(tasks[t].url)].delay_seconds > 0
    /\ tasks[t].gap # -1
    /\ tasks[u].gap # -1

\* the task t addresses the limiter kept under the key d
OnDomain(t, d) ==
  IF tasks[t].url.host = "" THEN d = "__no_domain__" ELSE d = tasks[t].url.host

\* C11: whatever holds an acquire back belongs to its own domain: the lock, the
\* waiters and the outstanding requests of a limiter are those of tasks of its
\* domain, and a task goes on as soon as its own limiter's lock is free or its
\* own sleep is over, whatever the state of the other limiters
C11_DomainsIndependent ==
  \A d \in Domains :
    /\ limiters[d].lock # 0 => OnDomain(limiters[d].lock, d)
    /\ \A i \in 1..Len(limiters[d].waiters) : OnDomain(limiters[d].waiters[i], d)
    /\ limiters[d].active_requests =
         Cardinality({t \in TaskIds : OnDomain(t, d) /\ tasks[t].pc \in {"get", "rel"}})
    /\ \A t \in TaskIds :
         /\ (OnDomain(t, d) /\ tasks[t].pc \in {"lock", "relock"} /\ limiters[d].lock = 0)
              => ENABLED LockGranted(t)
         /\ (OnDomain(t, d) /\ tasks[t].pc = "sleep" /\ tasks[t].rem = 0)
              => ENABLED SleepWake(t)

\* a request to one domain was started while another domain was at its cap or
\* inside its delay window, with a task held back there
C11_Witness ==
  \E t, u \in TaskIds :
    /\ tasks[t].url.host = "a"
    /\ tasks[t].pc \in {"cond", "sleep"}
    /\ tasks[u].url.host = "b"
    /\ tasks[u].pc = "get"
    /\ limiters["b"].since = 0

\* the positions at which a task is inside acquire: waiting for _lock at entry
\* or after a wake-up, waiting on the condition, sleeping out the delay
AcquireWaits == {"lock", "relock", "cond", "sleep"}

\* C12: the tasks blocked in acquire all complete it: from some point on no
\* task is inside acquire, and a task leaves acquire only with its request
\* start recorded
C12_BlockedAcquireCompletes ==
  /\ <>[](\A t \in TaskIds : tasks[t].pc \notin AcquireWaits)
  /\ [][\A t \in TaskIds :
          (tasks[t].pc \in AcquireWaits /\ tasks'[t].pc \notin AcquireWaits)
            => tasks'[t].gap # -1]_vars

\* a release has decremented the count of a full limiter and woken the task
\* that waited on its condition
C12_Witness ==
  \E t \in TaskIds :
    LET lim == limiters[DomainOf(tasks[t].url)]
    IN  /\ tasks[t].pc = "relock"
        /\ lim.active_requests < lim.max_concurrent
        /\ lim.waiters = <<>>

\* C13: every fetch gives back the slot it acquired, whatever its outcome: a
\* limiter none of whose requests is under way or being released has an
\* outstanding count of 0
C13_EveryFetchReleases ==
  \A d \in Domains :
    (\A t \in TaskIds :
       DomainOf(tasks[t].url) = d => tasks[t].pc \notin {"get", "rel"})
      => limiters[d].active_requests = 0

\* the request for a file that is recorded whenever it is received has failed:
\* its branch is over without a record, and the limiter's count is 0
C13_Witness ==
  \E f \in fetch_log :
    /\ Normalize(f.url) = U_REP
    /\ tasks[f.task].pc = "done"
    /\ \A r \in downloaded_files : r.task # f.task
    /\ limiters[DomainOf(f.url)].active_requests = 0

\* C14: a branch whose request failed only releases its limiter and ends: it
\* yields no record and no further branch,
\* and a run in which requests failed, and no stop was requested, still
\* processes every branch to its end and resolves completed or completed_empty
C14_FetchFailureContained ==
  /\ \A t \in TaskIds :
       tasks[t].resp = "fail" =>
         /\ tasks[t].pc \in {"rel", "done"}
         /\ tasks[t].out = 0
         /\ \A r \in downloaded_files : r.task # t
         /\ \A c \in TaskIds : tasks[c].parent # t
  /\ (RunEnded /\ ~should_stop /\ \E t \in TaskIds : tasks[t].resp = "fail") =>
       /\ \A t \in TaskIds : tasks[t].pc = "done"
       /\ final_status_to_set \in {"completed", "completed_empty"}
       /\ pcMain = "closing" => status = final_status_to_set

\* of two sibling branches one failed and the other captured a record, and the
\* run is completed
C14_Witness ==
  /\ pcMain = "closing"
  /\ status = "completed"
  /\ \E t, u \in TaskIds :
       /\ tasks[t].resp = "fail"
       /\ tasks[u].parent = tasks[t].parent
       /\ tasks[u].kind = tasks[t].kind
       /\ \E r \in downloaded_files : r.task = u

\* the statuses of a finished run
TerminalStatuses == {"completed", "completed_empty", "failed"}

RunTerminates == pcMain' # pcMain /\ pcMain' \in {"closing", "ended"}

\* the job was deleted, or another writer gave it the status it has, a status
\* other than running and stopping
Superseded ==
  \/ status = "None"
  \/ status = external_status /\ status \notin {"running", "stopping"}

\* C16: when the run terminates, on any path, it leaves the status alone if
\* the job was deleted or its status was changed externally to something
\* other than running or stopping.
C16_ExternalStatusKept ==
  [][RunTerminates /\ Superseded => status' = status]_vars

\* C17: a run that an unrecoverable error aborted, and that nobody else
\* touched, ends with status failed, whatever it had captured.
C17_AbortedRunFails ==
  (aborted /\ pcJob = "done" /\ external_status = "none" /\ pcDelete = "idle")
    => status = "failed"

\* an aborted run that had captured a record ends failed
C17_Witness ==
  /\ aborted /\ pcJob = "done" /\ external_status = "none" /\ pcDelete = "idle"
  /\ files_processed_count > 0
  /\ downloaded_files # {}
  /\ ~should_stop
  /\ status = "failed"

\* branch c queried robots.txt for the domain of branch t after t's request
\* had returned: c is a page found in the page t fetched
QueriedLater(t, c) ==
  /\ tasks[c].kind = "page"
  /\ tasks[c].parent = t
  /\ tasks[c].pc # "new"
  /\ RobotsKey(tasks[c].url) = RobotsKey(tasks[t].url)

GoesOnToFetch(tk) ==
  \/ tk.pc \in AcquireWaits \cup {"get"}
  \/ tk.pc = "done" /\ tk.resp = "fail"

\* C19: when the robots.txt request of a branch fails, the branch goes on to
\* fetch its URL and the cache is left as it was; and a branch whose domain
\* has no entry in the cache never goes on without a robots.txt request.
C19_FailedRobotsFetch ==
  [][\A t \in TaskIds :
       /\ (tasks[t].pc = "robots" /\ tasks'[t].robots = "error") =>
             /\ GoesOnToFetch(tasks'[t])
             /\ robots_parsers_cache' = robots_parsers_cache
       /\ ( /\ tasks[t].pc = "new" /\ tasks[t].kind = "page"
            /\ settings.respect_robots_txt
            /\ RobotsKey(tasks[t].url) \notin DOMAIN robots_parsers_cache
            /\ ~client_closed ) =>
             tasks'[t].pc \in {"new", "robots", "done"}]_vars

\* a request failed, nothing is cached, and a page found later on the same
\* domain waits for its own robots.txt request
C19_Witness ==
  \E t \in TaskIds, c \in TaskIds :
    /\ tasks[t].robots = "error"
    /\ QueriedLater(t, c)
    /\ tasks[c].pc = "robots"
    /\ robots_parsers_cache = <<>>

C21_NoEmptyOrPartialFile ==
  dl.pc = "returned" =>
    /\ (dl.file_size_bytes = 0 => dl.result = "None" /\ dl.file = -1)
    /\ (dl.result = "None" => dl.file = -1)
    /\ (dl.file # -1 => dl.file = dl.file_size_bytes /\ dl.checksum_md5)

\* a download failed after a chunk was written, and has returned
C21_Witness ==
  /\ dl.pc = "returned"
  /\ dl.result = "None"
  /\ dl.file_size_bytes > 0
  /\ dl.existing # "bytes"

\* C28: whatever download_and_store_file has written lies under a name of at
\* most 100 characters, made of alphanumerics, '.', '_' and '-' only (so
\* without a separator: directly inside the directory of the job)
C28_FilenameBounded ==
  dl.file # -1 =>
    /\ Len(dl.local_filename) <= 100
    /\ \A i \in 1..Len(dl.local_filename) :
         IsAlnum(dl.local_filename[i]) \/ dl.local_filename[i] \in {".", "_", "-"}

C23_SitemapFetchedOnce ==
  \A f, g \in fetch_log :
    (f.kind # "page" /\ g.kind # "page" /\ f.url = g.url) => f.task = g.task

\* the index both pages name and the sitemap both indexes list were each
\* fetched by one branch, and a second branch for each ended without a request
C23_Witness ==
  /\ \E f \in fetch_log, t \in TaskIds :
       /\ f.kind = "sitemap" /\ f.url = U_IX
       /\ tasks[t].kind = "sitemap" /\ tasks[t].url = U_IX
       /\ t # f.task /\ tasks[t].pc = "done"
  /\ \E f \in fetch_log, t \in TaskIds :
       /\ f.kind = "child" /\ f.url = U_CH
       /\ tasks[t].kind = "child" /\ tasks[t].url = U_CH
       /\ t # f.task /\ tasks[t].pc = "done"

InFrontier(u) ==
  \E t \in TaskIds : tasks[t].parent = 0 /\ tasks[t].url = Normalize(u)

\* the query whose answer was page ended in a handler of execute_dork
QueryFailed(page) ==
  page.error \/ \E i \in 1..Len(page.links) : page.links[i] = BadHref

AllFetchesSucceeded ==
  \A t \in TaskIds :
    tasks[t].resp = "fail" => ~Resource(Normalize(tasks[t].url)).exists

C29_StoppedJobNeverRuns ==
  [][ ((pcJob = "queued" /\ status = "failed")
         => (status' # "running" /\ active_crawlers' = FALSE)) ]_vars

SuccessStatuses == {"completed", "completed_empty"}

\* C32: the step that ends the background task leaves the job scheduled only
\* when the run resolved to completed or completed_empty; a run that resolved
\* to anything else is not rescheduled and its job keeps a non-success status
C32_RescheduledOnlyAfterSuccess ==
  [][ ((pcMain = "closing" /\ pcMain' = "ended") =>
        LET resolved == JobFinalStatus(status, files_processed_count,
                                       files_processed_count > 0 /\ initial_urls_found)
        IN  /\ status' = "scheduled" => resolved \in SuccessStatuses
            /\ resolved \notin SuccessStatuses =>
                 status' \notin SuccessStatuses \cup {"scheduled"}) ]_vars

\* a recurring job whose run found nothing is scheduled again
C32_Witness ==
  /\ pcJob = "done"
  /\ status = "scheduled"
  /\ final_status_to_set = "completed_empty"
  /\ ~should_stop

\* the branches that process a URL a sitemap yielded
FromSitemap == {t \in TaskIds : /\ tasks[t].kind = "page"
                                /\ tasks[t].parent # 0
                                /\ tasks[tasks[t].parent].kind = "sitemap"}

\* the branches that process a link of a page
FromLink == {t \in TaskIds : /\ tasks[t].kind = "page"
                             /\ tasks[t].parent # 0
                             /\ tasks[tasks[t].parent].kind = "page"}

\* the page on which the sitemap of branch s was found
PageOf(s) == tasks[s].parent

\* C33: a URL yielded by a sitemap found on a page at depth d is processed at
\* depth d + 1, whether the sitemap lists it or is an index of sitemaps that
\* do; a link of a page at depth d is processed only when d is less than
\* crawl_depth, at depth d + 1
C33_SitemapUrlsOneDeeper ==
  /\ \A t \in FromSitemap :
       /\ PageOf(tasks[t].parent) # 0
       /\ tasks[PageOf(tasks[t].parent)].kind = "page"
       /\ tasks[t].depth = tasks[PageOf(tasks[t].parent)].depth + 1
  /\ \A t \in FromLink :
       /\ tasks[tasks[t].parent].depth < settings.crawl_depth
       /\ tasks[t].depth = tasks[tasks[t].parent].depth + 1

\* a URL of a sitemap reached through an index has been processed and the
\* run has ended
C33_Witness ==
  /\ \E t \in FromSitemap :
       /\ tasks[t].pc = "done"
       /\ \E c \in TaskIds : tasks[c].kind = "child" /\ tasks[c].parent = tasks[t].parent
  /\ pcMain = "ended"

\* the sitemap indexes of the modelled site that lie on a cycle
CyclicIndexes == {U_CY1, U_CY2}

\* C34: a run that resolves sitemap indexes which list themselves or each
\* other ends, and every sitemap URL of it was requested by at most one
\* branch
C34_IndexCycleTerminates ==
  /\ (pcJob = "running") ~> (pcMain = "ended")
  /\ [](\A f, g \in fetch_log :
          (f.kind # "page" /\ g.kind # "page" /\ f.url = g.url /\ f.url \in CyclicIndexes)
            => f.task = g.task)

\* the run has ended with both indexes of the cycle and the sitemap behind
\* them fetched and the file that sitemap lists recorded; an index listed by
\* the other one got a generator of its own, which ended without a request
C34_Witness ==
  /\ pcMain = "ended"
  /\ \A u \in CyclicIndexes \cup {U_CH} :
       \E f \in fetch_log : f.kind # "page" /\ f.url = u
  /\ \E r \in downloaded_files : r.file_url = U_REP
  /\ \E t \in TaskIds :
       /\ tasks[t].kind = "child" /\ tasks[t].url \in CyclicIndexes
       /\ tasks[t].pc = "done"
       /\ \A f \in fetch_log : f.task # t

\* the three documented examples: a text, the keywords handed over, and the
\* set the example expects
DocumentedExamples ==
  {<<T_ARCHIVE, {KW_DATA, KW_ZIP}>>,
   <<T_USERDB, {KW_DATABASE, KW_CREDENTIALS, KW_USER}>>,
   <<T_APIKEY, {KW_API_KEY}>>}

\* C35: on each documented example with underscores match_keywords_in_text
\* returns every keyword handed to it
C35_UnderscoreTokensMatch ==
  (km.pc = "returned" /\ <<km.text, km.keywords>> \in DocumentedExamples)
    => km.result = km.keywords

\* the branches with a request to domain d under way: a GET of
\* fetch_page_content, of _fetch_robots_txt_parser or of the downloader
InFlight(d, pcs) ==
  {t \in TaskIds : tasks[t].pc \in pcs /\ DomainOf(tasks[t].url) = d}

RobotsConsulted(t) ==
  \/ tasks[t].robots # "none"
  \/ RobotsKey(tasks[t].url) \in DOMAIN robots_parsers_cache

RECURSIVE ReachableWithin(_)
ReachableWithin(k) ==
  IF k = 0
  THEN {Normalize(sd) : sd \in {x \in settings.seed_urls : IsValidStartUrl(x)}}
  ELSE LET prev == ReachableWithin(k - 1)
           pages == {u \in prev : Resource(u).exists /\ IsHtml(Resource(u).ctype)}
       IN  prev \cup UNION {{Normalize(l) : l \in extract_links_from_html(Resource(u))} :
                              u \in pages}

LocalPath(r) == LocalFilename([name |-> r.name, extension |-> r.file_type])

====
